---- MODULE Spec2Model ----
(***************************************************************************)
(* birdmarks: the resumable bookmark export (src/src/exporter.ts,          *)
(* src/src/state.ts).  One invocation of exportBookmarks is a sequence of  *)
(* steps separated by its awaits; the client collaborator answers every    *)
(* call with a nondeterministic outcome.                                   *)
(***************************************************************************)
EXTENDS Integers, Sequences, FiniteSets, TLC

\* ---------------------------------------------------------------- bounds
MaxRuns == 2
MaxErrors == 1        \* entries of the error log in one behaviour
MaxThread == 2        \* author continuation tweets found for one bookmark
MaxLinks == 1         \* linked status ids / article links of one bookmark
MaxSingle == 1        \* single-tweet exports in one behaviour

\* ------------------------------------------------- the bookmark list
\* Pages of the bookmark list, newest first.  Page 1 holds bookmarks the
\* user adds while the job is under way; a cursor is the index of the page
\* it points to, 0 is "no cursor".
AllPages == << <<5>>, <<1, 2, 3>>, <<>>, <<4>> >>
Posts == {1, 2, 3, 4, 5}
DEFAULT_QUOTE_DEPTH == 3
MaxPagesOptions == {0, 1, 2}

Min(a, b) == IF a < b THEN a ELSE b

\* Array.prototype.slice(i) with a 0-based start index
Slice(page, i) == SubSeq(page, i + 1, Len(page))

VARIABLES
  top,        \* index of the first page of the list as it is now
  handle,     \* current author handle of every post
  disk,       \* bookmark files in the output directory: [id, user]
  errorLog,   \* errors.json
  persisted,  \* exporter-state.json
  pc,         \* position of the invocation in exportBookmarks
  cfg,        \* ExporterConfig of the invocation
  state,      \* the in-memory `state` of the invocation
  result,     \* the ExportResult of the invocation
  loc,        \* local variables of exportBookmarks
  pb,         \* local state of processBookmark and the article fetches
  env,        \* how often the environment has acted
  g           \* history of the invocation

vars == <<top, handle, disk, errorLog, persisted, pc, cfg, state, result, loc, pb, env, g>>

\* ------------------------------------------------------- state.ts
EmptyState ==
  [nextCursor |-> 0, hasPage |-> FALSE, currentPageBookmarks |-> <<>>,
   currentPage |-> 0, previousFirstExported |-> 0,
   currentRunFirstExported |-> 0, allBookmarksProcessed |-> FALSE,
   lastFullScanAt |-> 0]

\* a finishRun that leaves the pagination fields and the first-exported ids
finishKeepsPagination(s, completedFullScan, now) ==
  IF completedFullScan
  THEN [s EXCEPT !.allBookmarksProcessed = TRUE, !.lastFullScanAt = now]
  ELSE s

\* a finishRun that writes the completion fields in either case
finishResetsCompletion(s, completedFullScan, now) ==
  [s EXCEPT !.previousFirstExported =
               IF s.currentRunFirstExported # 0 THEN s.currentRunFirstExported ELSE @,
            !.currentRunFirstExported = 0,
            !.nextCursor = 0, !.hasPage = FALSE,
            !.currentPageBookmarks = <<>>, !.currentPage = 0,
            !.allBookmarksProcessed = completedFullScan,
            !.lastFullScanAt = IF completedFullScan THEN now ELSE 0]

\* a finishRun that marks completion whatever ended the run
finishMarksComplete(s, completedFullScan, now) ==
  [s EXCEPT !.previousFirstExported =
               IF s.currentRunFirstExported # 0 THEN s.currentRunFirstExported ELSE @,
            !.currentRunFirstExported = 0,
            !.nextCursor = 0, !.hasPage = FALSE,
            !.currentPageBookmarks = <<>>, !.currentPage = 0,
            !.allBookmarksProcessed = TRUE, !.lastFullScanAt = now]

\* state.ts 41-62; now is what new Date() gives, 0 is "no such field"
finishRun(s, completedFullScan, now) ==
  LET s1 == IF s.currentRunFirstExported # 0
            THEN [s EXCEPT !.previousFirstExported = s.currentRunFirstExported,
                           !.currentRunFirstExported = 0]
            ELSE s
      s2 == [s1 EXCEPT !.nextCursor = 0, !.hasPage = FALSE,
                       !.currentPageBookmarks = <<>>, !.currentPage = 0]
  IN IF completedFullScan
     THEN [s2 EXCEPT !.allBookmarksProcessed = TRUE, !.lastFullScanAt = now]
     ELSE s2

\* bookmarkFilename: date-handle-id.md; the date is fixed by the id
bookmarkFilename(tweet) == [id |-> tweet.id, user |-> tweet.user]

\* an existence check that finds nothing
bookmarkExistsNever(d, tweet) == FALSE

\* state.ts 144-157: the file of this name is there
bookmarkExists(d, tweet) == bookmarkFilename(tweet) \in d

\* glob date-*-id.md: any handle
bookmarkExistsById(d, id) == \E f \in d : f.id = id

\* ------------------------------------------------------- the client
Tweet(p) == [id |-> p, user |-> handle[p]]

PageIndex(cursor) == IF cursor = 0 THEN top ELSE cursor

\* the posts bookmarked by now
VisiblePosts == {AllPages[k][j] : <<k, j>> \in {x \in (top..Len(AllPages)) \X (1..3) : x[2] <= Len(AllPages[x[1]])}}

\* getAllBookmarks({maxPages: 1, cursor}).tweets
PageTweets(cursor) ==
  LET ids == AllPages[PageIndex(cursor)]
  IN [k \in 1..Len(ids) |-> Tweet(ids[k])]

\* getAllBookmarks({maxPages: 1, cursor}).nextCursor
PageNextCursor(cursor) ==
  IF PageIndex(cursor) < Len(AllPages) THEN PageIndex(cursor) + 1 ELSE 0

CallOutcomes == {"ok", "errThrown", "errResult", "rlThrown", "rlResult"}
\* a rate-limit test that looks at thrown errors only
IsRateLimitThrown(o) == o = "rlThrown"

\* the error, thrown or returned, has rate-limit text
IsRateLimit(o) == o \in {"rlThrown", "rlResult"}

\* ------------------------------------------------------- initial state
NoResult ==
  [exported |-> 0, skipped |-> 0, errors |-> 0,
   hitPreviousExport |-> FALSE, rateLimited |-> FALSE,
   backfilled |-> 0, frontmatterAdded |-> 0]

NoLoc ==
  [isFreshRun |-> TRUE, hasResumeState |-> FALSE, pagesFetchedThisRun |-> 0,
   pageNum |-> 0, bookmarksPage |-> <<>>, nextCursor |-> 0, i |-> 0,
   completedFullScan |-> FALSE, phase |-> "main", newCursor |-> 0,
   newPhaseFirstExported |-> 0, pagesWithoutNewExports |-> 0,
   exportsBeforePage |-> 0, newPhaseStopAt |-> 0, cursor |-> 0]

\* tasks[d]: the expandQuotedTweets calls of Promise.all whose getTweet is in
\* flight with remainingDepth d
NoTasks == [d \in 2..DEFAULT_QUOTE_DEPTH |-> 0]
\* quoteFailed: a getTweet of expandQuotedTweets for the current post failed
\* without rate-limit cause
NoPb ==
  [threadTweets |-> 0, depth |-> 0, tasks |-> NoTasks, statusIds |-> 0, articleLinks |-> 0,
   quoteFailed |-> FALSE]

NoCfg ==
  [maxPages |-> 0, quoteDepth |-> DEFAULT_QUOTE_DEPTH, includeReplies |-> FALSE,
   backfillReplies |-> FALSE, backfillFrontmatter |-> FALSE]

NoHist ==
  [outcome |-> "none", rlRaised |-> FALSE, rlThrown |-> FALSE, callAfterThrown |-> FALSE,
   pageFetches |-> 0, visited |-> <<>>, processed |-> {},
   boundaryAt |-> 0, actAfterBoundary |-> FALSE, finishCalled |-> FALSE,
   startState |-> EmptyState, allOnDisk |-> FALSE, newPhaseRan |-> FALSE,
   newVisited |-> 0, stops |-> 0, prevRlValid |-> FALSE,
   prevRlPage |-> <<>>, prevRlIndex |-> 0, prevRateLimited |-> FALSE,
   lastMainFetch |-> 0, written |-> {}, slept |-> FALSE,
   afterRateLimit |-> FALSE, mainFetches |-> 0, firstCursor |-> -1,
   firstMainCursor |-> -1, pages |-> <<>>, ops |-> {}]

Init ==
  /\ top = 2
  /\ handle = [p \in Posts |-> "a"]
  /\ disk = {}
  /\ errorLog = <<>>
  /\ persisted = EmptyState
  /\ pc = "idle"
  /\ cfg = NoCfg
  /\ state = EmptyState
  /\ result = NoResult
  /\ loc = NoLoc
  /\ pb = NoPb
  /\ env = [runs |-> 0, singles |-> 0]
  /\ g = NoHist


\* ------------------------------------------------------- environment
\* The user bookmarks new posts: they appear in front of the list.
NewBookmarks ==
  /\ pc = "idle"
  /\ top > 1
  /\ top' = top - 1
  /\ UNCHANGED <<handle, disk, errorLog, persisted, pc, cfg, state, result, loc, pb, env, g>>

\* exportSingleTweet: writes the file of one post, checkpoint untouched.
exportSingleTweet(p) ==
  /\ pc = "idle"
  /\ env.singles < MaxSingle
  /\ ~bookmarkExists(disk, Tweet(p))
  /\ disk' = disk \cup {bookmarkFilename(Tweet(p))}
  /\ env' = [env EXCEPT !.singles = @ + 1]
  /\ UNCHANGED <<top, handle, errorLog, persisted, pc, cfg, state, result, loc, pb, g>>

\* ------------------------------------------------------- exportBookmarks
PAGE_CHECK_COUNT == 3
MAX_PAGES_WITHOUT_NEW == 2

\* How an invocation ends: it returns its result, or it throws ("threw").
\* h is the history up to the return.
Return(res, how, h) ==
  /\ pc' = "done"
  /\ result' = res
  /\ pb' = NoPb
  /\ g' = [h EXCEPT !.outcome = how,
                    !.prevRateLimited = res.rateLimited,
                    !.prevRlValid = (how = "rlPost"),
                    !.prevRlPage = IF how = "rlPost" THEN loc.bookmarksPage ELSE <<>>,
                    !.prevRlIndex = IF how = "rlPost" THEN loc.i ELSE 0]

\* index.ts 153-182: the process reports the result and exits
Exit ==
  /\ pc = "done"
  /\ pc' = "idle"
  /\ cfg' = NoCfg
  /\ state' = EmptyState
  /\ result' = NoResult
  /\ loc' = NoLoc
  /\ g' = [NoHist EXCEPT !.prevRateLimited = g.prevRateLimited,
                         !.prevRlValid = g.prevRlValid,
                         !.prevRlPage = g.prevRlPage,
                         !.prevRlIndex = g.prevRlIndex,
                         !.lastMainFetch = g.lastMainFetch]
  /\ UNCHANGED <<top, handle, disk, errorLog, persisted, pb, env>>

isFreshRun(s) == s.nextCursor = 0 /\ ~s.hasPage
hasResumeState(s) == s.nextCursor # 0 \/ s.hasPage

\* lines 334-373 and 514-523: load the state, set up the locals
StartRun(mp, nf) ==
  /\ pc = "idle"
  /\ env.runs < MaxRuns
  /\ env' = [env EXCEPT !.runs = @ + 1]
  /\ cfg' = [NoCfg EXCEPT !.maxPages = mp]
  /\ state' = persisted
  /\ result' = NoResult
  /\ LET newPhase == nf /\ hasResumeState(persisted)
     IN /\ loc' = [NoLoc EXCEPT
               !.isFreshRun = isFreshRun(persisted),
               !.hasResumeState = hasResumeState(persisted),
               !.phase = IF newPhase THEN "new" ELSE "main",
               !.newPhaseStopAt =
                  IF ~newPhase THEN 0
                  ELSE IF persisted.currentRunFirstExported # 0
                  THEN persisted.currentRunFirstExported
                  ELSE persisted.previousFirstExported,
               !.pageNum = persisted.currentPage]
        /\ pc' = IF newPhase THEN "newTop" ELSE "mainTop"
        /\ g' = [NoHist EXCEPT
               !.outcome = "running",
               !.startState = persisted,
               !.allOnDisk = \A p \in VisiblePosts : bookmarkExistsById(disk, p),
               !.newPhaseRan = newPhase,
               !.afterRateLimit = g.prevRateLimited,
               !.prevRateLimited = g.prevRateLimited,
               !.prevRlValid = g.prevRlValid,
               !.prevRlPage = g.prevRlPage,
               !.prevRlIndex = g.prevRlIndex,
               !.lastMainFetch = g.lastMainFetch]
  /\ pb' = NoPb
  /\ UNCHANGED <<top, handle, disk, errorLog, persisted>>

CapReached(n) == cfg.maxPages # 0 /\ n >= cfg.maxPages

\* the error log has room for another entry
CanLog == Len(errorLog) < MaxErrors

\* History: a client call is issued; a call is answered.
Called(h) == [h EXCEPT !.callAfterThrown = @ \/ h.rlThrown,
                       !.actAfterBoundary = @ \/ (h.boundaryAt # 0)]
Answered(h, o) ==
  [h EXCEPT !.rlRaised = @ \/ IsRateLimit(o), !.rlThrown = @ \/ (o = "rlThrown")]
PageFetched(h) == [Called(h) EXCEPT !.pageFetches = @ + 1, !.slept = FALSE]
\* History: the cursor and the page of a bookmark-page fetch, of the main loop
\* or not
FetchedAt(h, cursor, main) ==
  [h EXCEPT !.firstCursor = IF @ = -1 THEN cursor ELSE @,
            !.firstMainCursor = IF main /\ @ = -1 THEN cursor ELSE @,
            !.mainFetches = IF main THEN @ + 1 ELSE @,
            !.lastMainFetch = IF main THEN PageIndex(cursor) ELSE @]

\* ---- main loop, lines 525-596: the page of this iteration
\* a resume that loses the first post of the remainder
ResumePageTail(s) == Tail(s.currentPageBookmarks)

\* line 537
ResumePage(s) == s.currentPageBookmarks

\* lines 534-538: resume from the cached remainder
MainResume ==
  /\ pc = "mainTop"
  /\ state.hasPage /\ Len(state.currentPageBookmarks) > 0
  /\ loc' = [loc EXCEPT !.pageNum = @ + 1, !.pagesFetchedThisRun = @ + 1,
                        !.bookmarksPage = ResumePage(state),
                        !.nextCursor = state.nextCursor, !.i = 0]
  /\ state' = [state EXCEPT !.currentPage = loc.pageNum + 1]
  /\ pc' = "check3"
  /\ UNCHANGED <<top, handle, disk, errorLog, persisted, cfg, result, pb, env, g>>

\* lines 539-596: fetch the page at state.nextCursor
MainFetch(o) ==
  /\ pc = "mainTop"
  /\ ~(state.hasPage /\ Len(state.currentPageBookmarks) > 0)
  /\ LET page == PageTweets(state.nextCursor)
         nc == PageNextCursor(state.nextCursor)
         st1 == [state EXCEPT !.currentPage = loc.pageNum + 1]
         loc1 == [loc EXCEPT !.pageNum = @ + 1, !.pagesFetchedThisRun = @ + 1, !.i = 0]
         h == Answered(FetchedAt(PageFetched(g), state.nextCursor, TRUE), o)
     IN CASE o = "ok" /\ Len(page) > 0 ->
               /\ loc' = [loc1 EXCEPT !.bookmarksPage = page, !.nextCursor = nc]
               /\ state' = st1
               /\ pc' = "check3"
               /\ g' = h
               /\ UNCHANGED <<persisted, result, pb>>
          [] o = "ok" /\ Len(page) = 0 /\ nc # 0 ->
               \* empty page but cursor exists: save it and continue
               /\ loc' = [loc1 EXCEPT !.bookmarksPage = page, !.nextCursor = nc]
               /\ state' = [st1 EXCEPT !.nextCursor = nc]
               /\ persisted' = [st1 EXCEPT !.nextCursor = nc]
               /\ pc' = "mainTop"
               /\ g' = h
               /\ UNCHANGED <<result, pb>>
          [] o = "ok" /\ Len(page) = 0 /\ nc = 0 ->
               /\ loc' = [loc1 EXCEPT !.bookmarksPage = page, !.nextCursor = nc,
                                      !.completedFullScan = TRUE]
               /\ state' = st1
               /\ pc' = "finish"
               /\ g' = h
               /\ UNCHANGED <<persisted, result, pb>>
          [] o = "rlThrown" ->
               \* RateLimitError from withRateLimitCheck: save state and exit
               /\ loc' = loc1
               /\ state' = st1
               /\ persisted' = st1
               /\ Return([result EXCEPT !.rateLimited = TRUE], "rlFetch", h)
          [] OTHER ->
               \* a thrown error, or an unsuccessful result turned into an Error
               /\ loc' = loc1
               /\ state' = st1
               /\ Return(result, "threw", h)
               /\ UNCHANGED persisted
  /\ UNCHANGED <<top, handle, disk, errorLog, cfg, env>>

\* a page check that lets every page through
NoPageCheck(d, page) == FALSE

\* lines 598-607: do the first (up to 3) posts of the page all exist?
FirstAlreadyExist(d, page) ==
  LET checkCount == Min(PAGE_CHECK_COUNT, Len(page))
  IN /\ checkCount > 0
     /\ \A k \in 1..checkCount : bookmarkExistsById(d, page[k].id)

\* an early return that writes the checkpoint on its way out
Check3StopSaves ==
  /\ pc = "check3"
  /\ FirstAlreadyExist(disk, loc.bookmarksPage)
  /\ persisted' = state
  /\ Return([result EXCEPT !.hitPreviousExport = TRUE], "stop3", g)
  /\ UNCHANGED <<top, handle, disk, errorLog, cfg, state, loc, env>>

\* lines 607-614
Check3Stop ==
  /\ pc = "check3"
  /\ FirstAlreadyExist(disk, loc.bookmarksPage)
  /\ Return([result EXCEPT !.hitPreviousExport = TRUE], "stop3", g)
  /\ UNCHANGED <<top, handle, disk, errorLog, persisted, cfg, state, loc, env>>

Check3Pass ==
  /\ pc = "check3"
  /\ ~FirstAlreadyExist(disk, loc.bookmarksPage)
  /\ pc' = "post"
  /\ UNCHANGED <<top, handle, disk, errorLog, persisted, cfg, state, result, loc, pb, env, g>>


\* ---- main loop, lines 616-699: the posts of the page
CurrentTweet == loc.bookmarksPage[loc.i + 1]

\* lines 621-625: the very first bookmark of a fresh run is the run's anchor
MarksFirst == loc.isFreshRun /\ result.exported = 0 /\ result.skipped = 0 /\ loc.i = 0
Marked(s) == IF MarksFirst THEN [s EXCEPT !.currentRunFirstExported = CurrentTweet.id] ELSE s
SavedIfMarked == IF MarksFirst THEN Marked(state) ELSE persisted

\* line 628
IsBoundary(s, tweet) == s.previousFirstExported # 0 /\ tweet.id = s.previousFirstExported

\* a skip that ends the scan wherever it happens
SkipAlwaysStops == TRUE

\* line 642
FirstBookmarkStop == loc.isFreshRun /\ loc.i = 0 /\ loc.pageNum = 1

Visit(h, id) == [h EXCEPT !.visited = Append(@, id)]

PostLoopEnd ==
  /\ pc = "post"
  /\ loc.i >= Len(loc.bookmarksPage)
  /\ pc' = "pageEnd"
  /\ UNCHANGED <<top, handle, disk, errorLog, persisted, cfg, state, result, loc, pb, env, g>>

\* lines 627-634: the previous run's first bookmark ends the scan
PostBoundary ==
  /\ pc = "post"
  /\ loc.i < Len(loc.bookmarksPage)
  /\ IsBoundary(Marked(state), CurrentTweet)
  /\ state' = Marked(state)
  /\ persisted' = SavedIfMarked
  /\ result' = [result EXCEPT !.hitPreviousExport = TRUE]
  /\ pc' = "pageEnd"
  /\ g' = [Visit(g, CurrentTweet.id) EXCEPT !.boundaryAt = loc.i + 1, !.stops = @ + 1]
  /\ UNCHANGED <<top, handle, disk, errorLog, cfg, loc, pb, env>>

\* lines 636-648: already exported
PostSkip ==
  /\ pc = "post"
  /\ loc.i < Len(loc.bookmarksPage)
  /\ ~IsBoundary(Marked(state), CurrentTweet)
  /\ bookmarkExists(disk, CurrentTweet)
  /\ state' = Marked(state)
  /\ persisted' = SavedIfMarked
  /\ IF FirstBookmarkStop
     THEN /\ result' = [result EXCEPT !.skipped = @ + 1, !.hitPreviousExport = TRUE]
          /\ pc' = "pageEnd"
          /\ loc' = loc
     ELSE /\ result' = [result EXCEPT !.skipped = @ + 1]
          /\ pc' = "post"
          /\ loc' = [loc EXCEPT !.i = @ + 1]
  /\ g' = Visit(g, CurrentTweet.id)
  /\ UNCHANGED <<top, handle, disk, errorLog, cfg, pb, env>>

\* lines 650-656: processBookmark is called
PostBegin ==
  /\ pc = "post"
  /\ loc.i < Len(loc.bookmarksPage)
  /\ ~IsBoundary(Marked(state), CurrentTweet)
  /\ ~bookmarkExists(disk, CurrentTweet)
  /\ state' = Marked(state)
  /\ persisted' = SavedIfMarked
  /\ pc' = "thread"
  /\ pb' = NoPb
  /\ g' = [Visit(g, CurrentTweet.id) EXCEPT !.processed = @ \cup {CurrentTweet.id}]
  /\ UNCHANGED <<top, handle, disk, errorLog, cfg, result, loc, env>>

\* ---- main loop, lines 706-741: after the page
\* a page end that ignores the stop signal
StopIgnored(res) == FALSE

\* line 706
StopsScan(res) == res.hitPreviousExport

\* lines 706-708
PageEndBoundary ==
  /\ pc = "pageEnd"
  /\ StopsScan(result)
  /\ pc' = "finish"
  /\ UNCHANGED <<top, handle, disk, errorLog, persisted, cfg, state, result, loc, pb, env, g>>

\* lines 710-725: the max-pages cap
PageEndCap ==
  /\ pc = "pageEnd"
  /\ ~StopsScan(result)
  /\ CapReached(loc.pagesFetchedThisRun)
  /\ IF loc.nextCursor # 0
     THEN LET st1 == [state EXCEPT !.nextCursor = loc.nextCursor, !.hasPage = FALSE,
                                   !.currentPageBookmarks = <<>>]
          IN /\ state' = st1
             /\ persisted' = st1
             /\ loc' = loc
             /\ Return(result, "cap", g)
     ELSE /\ loc' = [loc EXCEPT !.completedFullScan = TRUE]
          /\ pc' = "finish"
          /\ UNCHANGED <<persisted, state, result, pb, g>>
  /\ UNCHANGED <<top, handle, disk, errorLog, cfg, env>>

\* lines 727-734: save the cursor, clear the remainder, sleep
PageEndNext ==
  /\ pc = "pageEnd"
  /\ ~StopsScan(result)
  /\ ~CapReached(loc.pagesFetchedThisRun)
  /\ loc.nextCursor # 0
  /\ LET st1 == [state EXCEPT !.nextCursor = loc.nextCursor, !.hasPage = FALSE,
                              !.currentPageBookmarks = <<>>]
     IN /\ state' = st1
        /\ persisted' = st1
  /\ pc' = "mainTop"
  /\ g' = [g EXCEPT !.slept = TRUE]
  /\ UNCHANGED <<top, handle, disk, errorLog, cfg, result, loc, pb, env>>

\* lines 735-740: no more pages
PageEndLast ==
  /\ pc = "pageEnd"
  /\ ~StopsScan(result)
  /\ ~CapReached(loc.pagesFetchedThisRun)
  /\ loc.nextCursor = 0
  /\ loc' = [loc EXCEPT !.completedFullScan = TRUE]
  /\ pc' = "finish"
  /\ UNCHANGED <<top, handle, disk, errorLog, persisted, cfg, state, result, pb, env, g>>

\* new Date(): the time is the number of the invocation
Now == env.runs

\* lines 743-746: finishRun works on the state file, not on `state`
FinishRun ==
  /\ pc = "finish"
  /\ persisted' = finishRun(persisted, loc.completedFullScan, Now)
  /\ Return(result, "finished", [g EXCEPT !.finishCalled = TRUE])
  /\ UNCHANGED <<top, handle, disk, errorLog, cfg, state, loc, env>>


\* ---- processing one post: processBookmark, the write, the article fetches
InMain == loc.phase = "main"

\* lines 456-461 (new-bookmarks phase: return at once) and 675-677 (main loop:
\* the catch block, which awaits saveState before it returns)
RaiseRateLimit(h, pbNext) ==
  IF InMain
  THEN /\ pc' = "rlCatch"
       /\ pb' = pbNext
       /\ g' = h
       /\ result' = result
  ELSE Return([result EXCEPT !.rateLimited = TRUE], "rlNew", [h EXCEPT !.stops = @ + 1])

\* what the entry of the error log records of the answer o
ErrorText(o) == IF IsRateLimit(o) THEN "rateLimit" ELSE "failure"

\* an error log that drops the entry
dropError(log, id, error, context) == log

\* state.ts appendError
appendError(log, id, error, context) ==
  Append(log, [tweetId |-> id, error |-> error, context |-> context])

\* lines 462-470 and 687-697: log the error, count it, go on with the next post
PostError(h) ==
  /\ errorLog' = appendError(errorLog, CurrentTweet.id, "failure", loc.phase)
  /\ result' = [result EXCEPT !.errors = @ + 1]
  /\ loc' = [loc EXCEPT !.i = @ + 1]
  /\ pc' = IF InMain THEN "post" ELSE "newPost"
  /\ pb' = NoPb
  /\ g' = h

\* thread.ts 35-43 and 81-87: which answers of getThread leave expandThread
\* as an exception that withRateLimitCheck (exporter.ts 253-256) turns into
\* a RateLimitError
ThreadCallRaises(o) == IsRateLimit(o)

\* a quote fetch whose every failure ends the post
QuoteCallRaisesOnFailure(o) == o # "ok"

\* exporter.ts 219-241: which answers of getTweet leave expandQuotedTweets as
\* a RateLimitError
QuoteCallRaises(o) == o = "rlThrown"

\* exporter.ts 224 and 236-241: the fetch failed, thrown or as an unsuccessful
\* result, and not by a rate limit
NonRateFailure(o) == o \in {"errThrown", "errResult"}

\* exporter.ts 127-150 and 163-199
ArticleCallRaises(o) == o = "rlThrown"

\* thread.ts 31-88: one getThread call of expandThread
GetThread(o, more) ==
  /\ pc = "thread"
  /\ more => (o = "ok" /\ pb.threadTweets < MaxThread)
  /\ LET h == Answered(Called(g), o)
     IN IF ThreadCallRaises(o)
        THEN RaiseRateLimit(h, NoPb)
        ELSE /\ pb' = IF more THEN [pb EXCEPT !.threadTweets = @ + 1]
                      ELSE [pb EXCEPT !.depth = cfg.quoteDepth]
             /\ pc' = IF more THEN "thread" ELSE "quote"
             /\ g' = h
             /\ result' = result
  /\ UNCHANGED <<top, handle, disk, errorLog, persisted, cfg, state, loc, env>>

\* exporter.ts 213-215: depth used up or no quoted tweet
QuoteOriginalReturn ==
  /\ pc = "quote"
  /\ pc' = "fanout"
  /\ pb' = [pb EXCEPT !.depth = 0]
  /\ UNCHANGED <<top, handle, disk, errorLog, persisted, cfg, state, result, loc, env, g>>

\* exporter.ts 219-244: the getTweet call of expandQuotedTweets(original)
QuoteOriginalFetch(o) ==
  /\ pc = "quote"
  /\ pb.depth > 1
  /\ LET h == Answered(Called(g), o)
     IN IF QuoteCallRaises(o)
        THEN RaiseRateLimit(h, [NoPb EXCEPT !.quoteFailed = NonRateFailure(o)])
        ELSE /\ pb' = IF o = "ok" THEN [pb EXCEPT !.depth = @ - 1]
                      ELSE [pb EXCEPT !.depth = 0, !.quoteFailed = NonRateFailure(o)]
             /\ pc' = IF o = "ok" THEN "quote" ELSE "fanout"
             /\ g' = h
             /\ result' = result
  /\ UNCHANGED <<top, handle, disk, errorLog, persisted, cfg, state, loc, env>>

InFlight(tasks) == \E d \in DOMAIN tasks : tasks[d] > 0

\* exporter.ts 260-262: Promise.all starts expandQuotedTweets for every thread
\* tweet at once; k of the thread tweets quote a tweet
ThreadQuotesStart(k) ==
  /\ pc = "fanout"
  /\ k <= pb.threadTweets
  /\ k > 0 => cfg.quoteDepth > 1
  /\ LET tasks == [d \in DOMAIN NoTasks |-> IF d = cfg.quoteDepth THEN k ELSE 0]
     IN /\ pb' = [NoPb EXCEPT !.tasks = tasks, !.quoteFailed = pb.quoteFailed]
        /\ pc' = IF InFlight(tasks) THEN "quoteAll" ELSE "write"
        /\ g' = IF InFlight(tasks) THEN Called(g) ELSE g
  /\ UNCHANGED <<top, handle, disk, errorLog, persisted, cfg, state, result, loc, env>>

\* exporter.ts 219-244 inside Promise.all: the answer to a call in flight with
\* remainingDepth d.  After one task has thrown, the others are still running
\* while the catch block of the main loop awaits saveState.
ThreadQuoteAnswer(d, o, more) ==
  /\ pc \in {"quoteAll", "rlCatch"}
  /\ pb.tasks[d] > 0
  /\ more => (o = "ok" /\ d - 1 > 1)
  /\ LET tasks == [x \in DOMAIN NoTasks |->
                     IF x = d THEN pb.tasks[x] - 1
                     ELSE IF more /\ x = d - 1 THEN pb.tasks[x] + 1
                     ELSE pb.tasks[x]]
         h0 == Answered(g, o)
         h == IF more THEN Called(h0) ELSE h0
         pb1 == [pb EXCEPT !.tasks = tasks, !.quoteFailed = @ \/ NonRateFailure(o)]
     IN IF QuoteCallRaises(o) /\ pc = "quoteAll"
        THEN RaiseRateLimit(h, pb1)
        ELSE /\ pb' = pb1
             /\ pc' = IF pc = "quoteAll" /\ ~InFlight(tasks) THEN "write" ELSE pc
             /\ g' = h
             /\ result' = result
  /\ UNCHANGED <<top, handle, disk, errorLog, persisted, cfg, state, loc, env>>

Wrote(h) ==
  [h EXCEPT !.actAfterBoundary = @ \/ (h.boundaryAt # 0),
            !.written = @ \cup {CurrentTweet.id}]

\* exporter.ts 446 against 670: when is the post counted as exported
CountsAtWrite == ~InMain

\* exporter.ts 265-274 processTweet and 657 writeBookmarkMarkdown; ns and na
\* are the linked status ids and article links collectLinkedIds finds
WriteBookmark(o, ns, na) ==
  /\ pc = "write"
  /\ o # "ok" => (ns = 0 /\ na = 0 /\ CanLog)
  /\ disk' = IF o = "errThrown" THEN disk ELSE disk \cup {bookmarkFilename(CurrentTweet)}
  /\ IF o = "ok"
     THEN /\ result' = IF CountsAtWrite THEN [result EXCEPT !.exported = @ + 1] ELSE result
          /\ pb' = [NoPb EXCEPT !.statusIds = ns, !.articleLinks = na,
                                !.quoteFailed = pb.quoteFailed]
          /\ pc' = "links"
          /\ g' = Wrote(g)
          /\ UNCHANGED <<errorLog, loc>>
     ELSE PostError(IF o = "errAfter" THEN Wrote(g) ELSE g)
  /\ UNCHANGED <<top, handle, persisted, cfg, state, env>>

\* exporter.ts 120-152 fetchLinkedArticles: one getTweet
FetchLinkedTweet(o) ==
  /\ pc = "links"
  /\ pb.statusIds > 0
  /\ o = "errThrown" => CanLog
  /\ LET h == Answered(Called(g), o)
         pb1 == [pb EXCEPT !.statusIds = @ - 1]
     IN IF ArticleCallRaises(o)
        THEN /\ RaiseRateLimit(h, NoPb)
             /\ UNCHANGED errorLog
        ELSE /\ errorLog' = IF o = "errThrown" THEN appendError(errorLog, 0, "failure", "linked")
                            ELSE errorLog
             /\ pb' = pb1
             /\ g' = h
             /\ UNCHANGED <<pc, result>>
  /\ UNCHANGED <<top, handle, disk, persisted, cfg, state, loc, env>>

ArticleOutcomes == CallOutcomes \cup {"noArticle"}

\* exporter.ts 157-201 fetchArticlesFromTweetsWithArticleLinks: one getTweet
FetchArticleTweet(o) ==
  /\ pc = "links"
  /\ pb.statusIds = 0
  /\ pb.articleLinks > 0
  /\ o \notin {"ok", "rlThrown"} => CanLog
  /\ LET h == Answered(Called(g), o)
         pb1 == [pb EXCEPT !.articleLinks = @ - 1]
     IN IF ArticleCallRaises(o)
        THEN /\ RaiseRateLimit(h, NoPb)
             /\ UNCHANGED errorLog
        ELSE /\ errorLog' = IF o = "ok" THEN errorLog
                            ELSE appendError(errorLog, CurrentTweet.id, ErrorText(o), "article")
             /\ pb' = pb1
             /\ g' = h
             /\ UNCHANGED <<pc, result>>
  /\ UNCHANGED <<top, handle, disk, persisted, cfg, state, loc, env>>

\* lines 673 and 678
RemainderSkipsCurrent(page, i) == Slice(page, i + 1)
RemainderAfterExport(page, i) == Slice(page, i + 1)
RemainderOnRateLimit(page, i) == Slice(page, i)

\* lines 670-674: count the export, drop the post from the remainder, save
CommitPost ==
  /\ pc = "links"
  /\ pb.statusIds = 0
  /\ pb.articleLinks = 0
  /\ IF InMain
     THEN LET st1 == [state EXCEPT !.hasPage = TRUE,
                        !.currentPageBookmarks = RemainderAfterExport(loc.bookmarksPage, loc.i)]
          IN /\ result' = [result EXCEPT !.exported = @ + 1]
             /\ state' = st1
             /\ persisted' = st1
             /\ pc' = "post"
     ELSE /\ pc' = "newPost"
          /\ UNCHANGED <<result, state, persisted>>
  /\ loc' = [loc EXCEPT !.i = @ + 1]
  /\ pb' = NoPb
  /\ UNCHANGED <<top, handle, disk, errorLog, cfg, env, g>>

\* a rate-limit stop that closes the run as a clean completion does
CatchRateLimitFinishes ==
  /\ pc = "rlCatch"
  /\ LET st1 == [state EXCEPT !.hasPage = TRUE,
                   !.currentPageBookmarks = RemainderOnRateLimit(loc.bookmarksPage, loc.i),
                   !.nextCursor = loc.nextCursor]
     IN /\ state' = st1
        /\ persisted' = finishRun(st1, FALSE, Now)
  /\ Return([result EXCEPT !.rateLimited = TRUE], "rlPost", [g EXCEPT !.stops = @ + 1])
  /\ UNCHANGED <<top, handle, disk, errorLog, cfg, loc, env>>

\* lines 675-685: save the remainder from the current post on, and the cursor
CatchRateLimit ==
  /\ pc = "rlCatch"
  /\ LET st1 == [state EXCEPT !.hasPage = TRUE,
                   !.currentPageBookmarks = RemainderOnRateLimit(loc.bookmarksPage, loc.i),
                   !.nextCursor = loc.nextCursor]
     IN /\ state' = st1
        /\ persisted' = st1
  /\ Return([result EXCEPT !.rateLimited = TRUE], "rlPost", [g EXCEPT !.stops = @ + 1])
  /\ UNCHANGED <<top, handle, disk, errorLog, cfg, loc, env>>


\* ---- new-bookmarks phase, lines 356-511
\* lines 377-385: the cap is checked before the page is fetched
NewPhaseCap ==
  /\ pc = "newTop"
  /\ CapReached(loc.pagesFetchedThisRun + 1)
  /\ loc' = [loc EXCEPT !.pagesFetchedThisRun = @ + 1]
  /\ Return(result, "capNew", g)
  /\ UNCHANGED <<top, handle, disk, errorLog, persisted, cfg, state, env>>

\* lines 389-410 and 492-499: fetch a page from the top of the list
NewFetch(o) ==
  /\ pc = "newTop"
  /\ ~CapReached(loc.pagesFetchedThisRun + 1)
  /\ LET page == PageTweets(loc.newCursor)
         nc == PageNextCursor(loc.newCursor)
         loc1 == [loc EXCEPT !.pagesFetchedThisRun = @ + 1]
         h == Answered(FetchedAt(PageFetched(g), loc.newCursor, FALSE), o)
     IN CASE o = "ok" ->
               /\ loc' = [loc1 EXCEPT !.bookmarksPage = page, !.newCursor = nc, !.i = 0,
                                      !.exportsBeforePage = result.exported]
               /\ pc' = IF Len(page) = 0 THEN "newEnd" ELSE "newPost"
               /\ g' = h
               /\ UNCHANGED <<result, pb>>
          [] o = "rlThrown" ->
               /\ loc' = loc1
               /\ Return([result EXCEPT !.rateLimited = TRUE], "rlNewFetch", h)
          [] OTHER ->
               /\ loc' = loc1
               /\ Return(result, "threw", h)
  /\ UNCHANGED <<top, handle, disk, errorLog, persisted, cfg, state, env>>

IsStopPoint(tweet) == loc.newPhaseStopAt # 0 /\ tweet.id = loc.newPhaseStopAt

\* lines 423-426
FirstSeen(l) ==
  IF l.newPhaseFirstExported = 0 THEN [l EXCEPT !.newPhaseFirstExported = CurrentTweet.id] ELSE l

NewVisit(h) == [h EXCEPT !.newVisited = @ + 1]

\* lines 474-491: after the page
NewPageEnd ==
  /\ pc = "newPost"
  /\ loc.i >= Len(loc.bookmarksPage)
  /\ LET exportsThisPage == result.exported - loc.exportsBeforePage
         without == IF exportsThisPage > 0 THEN 0 ELSE loc.pagesWithoutNewExports + 1
     IN /\ loc' = [loc EXCEPT !.pagesWithoutNewExports = without]
        /\ pc' = IF without >= MAX_PAGES_WITHOUT_NEW \/ loc.newCursor = 0
                 THEN "newEnd" ELSE "newTop"
        \* line 491: sleep(PAGE_DELAY_MS) when the loop goes on
        /\ g' = [g EXCEPT !.slept = ~(without >= MAX_PAGES_WITHOUT_NEW \/ loc.newCursor = 0)]
  /\ UNCHANGED <<top, handle, disk, errorLog, persisted, cfg, state, result, pb, env>>

\* lines 417-421
NewPostStop ==
  /\ pc = "newPost"
  /\ loc.i < Len(loc.bookmarksPage)
  /\ IsStopPoint(CurrentTweet)
  /\ pc' = "newEnd"
  /\ g' = [NewVisit(g) EXCEPT !.stops = @ + 1]
  /\ UNCHANGED <<top, handle, disk, errorLog, persisted, cfg, state, result, loc, pb, env>>

\* lines 428-434
NewPostSkip ==
  /\ pc = "newPost"
  /\ loc.i < Len(loc.bookmarksPage)
  /\ ~IsStopPoint(CurrentTweet)
  /\ bookmarkExistsById(disk, CurrentTweet.id)
  /\ result' = [result EXCEPT !.skipped = @ + 1]
  /\ loc' = [FirstSeen(loc) EXCEPT !.i = @ + 1]
  /\ g' = NewVisit(g)
  /\ UNCHANGED <<top, handle, disk, errorLog, persisted, cfg, state, pc, pb, env>>

\* lines 436-442
NewPostBegin ==
  /\ pc = "newPost"
  /\ loc.i < Len(loc.bookmarksPage)
  /\ ~IsStopPoint(CurrentTweet)
  /\ ~bookmarkExistsById(disk, CurrentTweet.id)
  /\ loc' = FirstSeen(loc)
  /\ pc' = "thread"
  /\ pb' = NoPb
  /\ g' = [NewVisit(g) EXCEPT !.processed = @ \cup {CurrentTweet.id}]
  /\ UNCHANGED <<top, handle, disk, errorLog, persisted, cfg, state, result, env>>

\* a phase end that saves the cursor of the new-bookmarks loop as the resume
\* position
NewPhaseEndSavesCursor ==
  /\ pc = "newEnd"
  /\ LET st1 == [state EXCEPT !.currentRunFirstExported = loc.newPhaseFirstExported,
                              !.nextCursor = loc.newCursor]
     IN /\ state' = st1
        /\ persisted' = st1
  /\ loc' = [loc EXCEPT !.phase = "main", !.bookmarksPage = <<>>, !.i = 0]
  /\ pc' = "mainTop"
  /\ UNCHANGED <<top, handle, disk, errorLog, cfg, result, pb, env, g>>

\* lines 502-523: the anchor of the job moves to the first post seen
NewPhaseEnd ==
  /\ pc = "newEnd"
  /\ IF loc.newPhaseFirstExported # 0
     THEN LET st1 == [state EXCEPT !.currentRunFirstExported = loc.newPhaseFirstExported]
          IN /\ state' = st1
             /\ persisted' = st1
     ELSE UNCHANGED <<state, persisted>>
  /\ loc' = [loc EXCEPT !.phase = "main", !.bookmarksPage = <<>>, !.i = 0]
  /\ pc' = "mainTop"
  /\ UNCHANGED <<top, handle, disk, errorLog, cfg, result, pb, env, g>>

\* ------------------------------------------------------- specification
Next ==
  \/ NewBookmarks
  \/ \E p \in Posts : exportSingleTweet(p)
  \/ Exit
  \/ \E mp \in MaxPagesOptions, nf \in BOOLEAN : StartRun(mp, nf)
  \/ MainResume
  \/ \E o \in CallOutcomes : MainFetch(o)
  \/ Check3Stop
  \/ Check3Pass
  \/ PostLoopEnd
  \/ PostBoundary
  \/ PostSkip
  \/ PostBegin
  \/ PageEndBoundary
  \/ PageEndCap
  \/ PageEndNext
  \/ PageEndLast
  \/ FinishRun
  \/ \E o \in CallOutcomes, more \in BOOLEAN : GetThread(o, more)
  \/ QuoteOriginalReturn
  \/ \E o \in CallOutcomes : QuoteOriginalFetch(o)
  \/ \E k \in 0..MaxThread : ThreadQuotesStart(k)
  \/ \E d \in DOMAIN NoTasks, o \in CallOutcomes, more \in BOOLEAN : ThreadQuoteAnswer(d, o, more)
  \/ \E o \in {"ok", "errThrown", "errAfter"}, ns \in 0..MaxLinks, na \in 0..MaxLinks :
        WriteBookmark(o, ns, na)
  \/ \E o \in CallOutcomes : FetchLinkedTweet(o)
  \/ \E o \in ArticleOutcomes : FetchArticleTweet(o)
  \/ CommitPost
  \/ CatchRateLimit
  \/ NewPhaseCap
  \/ \E o \in CallOutcomes : NewFetch(o)
  \/ NewPageEnd
  \/ NewPostStop
  \/ NewPostSkip
  \/ NewPostBegin
  \/ NewPhaseEnd

Spec == Init /\ [][Next]_vars

\* ------------------------------------------------------- properties
RunEnded == pc = "done"

\* the remainder of page `page` from the 0-based index k on, as ids
Ids(page) == [j \in 1..Len(page) |-> page[j].id]

\* C1 as stated, for every place of exportBookmarks where a post is processed:
\* when a RateLimitError ends the run at index k of a page, the checkpoint
\* holds exactly posts[k..N-1] of that page.
C1_RemainderAnyPhase ==
  (RunEnded /\ g.outcome \in {"rlPost", "rlNew"}) =>
     /\ persisted.hasPage
     /\ persisted.currentPageBookmarks = Slice(loc.bookmarksPage, loc.i)

\* C1, main loop: when a RateLimitError ends the run at index k of a page of
\* the main loop, the checkpoint holds exactly posts[k..N-1] in page order;
\* the main loop of the next invocation visits those posts first and in that
\* order, and the next invocation processes no post of index < k of that page.
C1_RemainderAndResume ==
  /\ (RunEnded /\ g.outcome = "rlPost") =>
        /\ persisted.hasPage
        /\ persisted.currentPageBookmarks = Slice(loc.bookmarksPage, loc.i)
  /\ (g.prevRlValid /\ g.outcome = "running") =>
        LET rem == Ids(Slice(g.prevRlPage, g.prevRlIndex))
        IN /\ \A j \in 1..Min(Len(g.visited), Len(rem)) : g.visited[j] = rem[j]
           /\ \A j \in 1..g.prevRlIndex : g.prevRlPage[j].id \notin g.processed

\* a rate limit at index k > 0 was resumed and the whole remainder visited
C1_Witness ==
  /\ g.prevRlValid /\ g.outcome = "running"
  /\ g.prevRlIndex > 0
  /\ Len(Slice(g.prevRlPage, g.prevRlIndex)) > 1
  /\ Len(g.visited) >= Len(Slice(g.prevRlPage, g.prevRlIndex))
  /\ g.processed # {}

\* C2: once a client call made while a post is processed has thrown a rate
\* limit, the invocation issues no further client call, and it ends with
\* rateLimited = true and a checkpoint that holds the next-page cursor and
\* the page suffix from the in-flight post on.
C2_RateLimitStopsAtOnce ==
  /\ ~g.callAfterThrown
  /\ (RunEnded /\ g.outcome \in {"rlPost", "rlNew"}) =>
        /\ result.rateLimited
        /\ persisted.hasPage
        /\ persisted.currentPageBookmarks = Slice(loc.bookmarksPage, loc.i)
        /\ persisted.nextCursor = loc.nextCursor

\* C3: an invocation that resumes a rate-limited run, meets no rate limit
\* and no failure and has no page cap, does not return with the checkpoint
\* it started from unless it has called finishRun.
C3_ResumeMakesProgress ==
  (RunEnded /\ g.afterRateLimit /\ ~g.rlRaised /\ g.outcome # "threw" /\ cfg.maxPages = 0) =>
     (g.finishCalled \/ persisted # g.startState)

\* C4 as stated: an invocation that starts with every bookmarked post on disk
\* returns exported = 0 and skipped = N.
C4_SecondRunSkipsAll ==
  (RunEnded /\ g.allOnDisk /\ g.outcome \in {"stop3", "finished", "cap", "capNew"}) =>
     /\ result.exported = 0
     /\ result.skipped = Cardinality(VisiblePosts)

\* C4, as the code has it: an invocation that starts with every bookmarked
\* post on disk processes nothing and returns exported = 0 and errors = 0; its
\* main loop counts no skipped post, because the page check ends the run at
\* the first non-empty page with hitPreviousExport = true (only the
\* new-bookmarks phase counts the posts it passes over).
C4_SecondRunExportsNothing ==
  (g.outcome # "none" /\ g.allOnDisk) =>
     /\ result.exported = 0
     /\ result.errors = 0
     /\ g.processed = {}
     /\ g.visited = <<>>
     /\ result.skipped = g.newVisited - (IF g.newVisited > 0 /\ g.stops > 0 THEN 1 ELSE 0)
     /\ ~g.newPhaseRan => result.skipped = 0
     /\ (RunEnded /\ g.outcome = "stop3") => result.hitPreviousExport

\* a first run has written all four bookmarks, the second run has returned
C4_Witness ==
  /\ RunEnded /\ g.allOnDisk /\ g.outcome = "stop3"
  /\ env.runs = 2 /\ env.singles = 0
  /\ Cardinality(VisiblePosts) >= 4
  /\ g.pageFetches > 0

\* C5: once the main loop has met the post previousFirstExported, the
\* invocation processes neither that post nor one after it, issues no client
\* call (so fetches no further page) and writes no file.
C5_BoundaryStop ==
  g.boundaryAt # 0 =>
     /\ ~g.actAfterBoundary
     /\ pc \in {"pageEnd", "finish", "done"}
     /\ loc.i + 1 = g.boundaryAt
     /\ CurrentTweet.id = state.previousFirstExported
     /\ \A j \in g.boundaryAt..Len(loc.bookmarksPage) : loc.bookmarksPage[j].id \notin g.processed

\* the boundary was met on a later page, with posts behind it, and the run
\* has ended through finishRun
C5_Witness ==
  /\ RunEnded /\ g.finishCalled
  /\ g.boundaryAt # 0
  /\ Len(loc.bookmarksPage) > g.boundaryAt
  /\ g.pageFetches = 2
  /\ g.processed # {}

\* C6 as stated: the per-post loop leaves a page before its end only at the
\* previous-run boundary, never at a post that exists on disk.
C6_ExistingNeverEndsScan ==
  (pc = "pageEnd" /\ loc.i < Len(loc.bookmarksPage)) => g.boundaryAt = loc.i + 1

FreshFirstBookmark == loc.isFreshRun /\ loc.i = 0 /\ loc.pageNum = 1

\* C6, as the code has it: a post on disk that is not the boundary increments
\* skipped; the loop then continues with the next post, except on a fresh run
\* (no cursor, no remainder in the checkpoint) at the first post of page 1,
\* where the scan ends with hitPreviousExport = true.
C6_SkipContinues ==
  /\ [](pc = "pageEnd" /\ loc.i < Len(loc.bookmarksPage) =>
          \/ g.boundaryAt = loc.i + 1
          \/ FreshFirstBookmark /\ bookmarkExists(disk, CurrentTweet))
  /\ [][(/\ pc = "post"
         /\ loc.i < Len(loc.bookmarksPage)
         /\ state.previousFirstExported # CurrentTweet.id
         /\ bookmarkExists(disk, CurrentTweet)) =>
        /\ result'.skipped = result.skipped + 1
        /\ result'.exported = result.exported
        /\ disk' = disk
        /\ IF FreshFirstBookmark
           THEN pc' = "pageEnd" /\ result'.hitPreviousExport
           ELSE /\ pc' = "post"
                /\ loc'.i = loc.i + 1
                /\ result'.hitPreviousExport = result.hitPreviousExport]_vars

\* a post on disk behind the first post of its page was skipped, the loop is
\* at the next post
C6_Witness ==
  /\ pc = "post" /\ loc.i > 0 /\ loc.i < Len(loc.bookmarksPage)
  /\ result.skipped > 0
  /\ bookmarkExists(disk, loc.bookmarksPage[loc.i])
  /\ loc.bookmarksPage[loc.i].id \notin g.processed
  /\ ~result.hitPreviousExport

\* C7: when the processing of a post fails with an error that is no rate
\* limit, one entry for that post is appended to the error log, errors grows
\* by one, rateLimited stays false, the checkpoint is untouched and the loop
\* is at the next post of the same page.
C7_FailureIsolated ==
  [][(pc = "write" /\ pc' # "links") =>
       /\ errorLog' = Append(errorLog, [tweetId |-> CurrentTweet.id, error |-> "failure",
                                        context |-> loc.phase])
       /\ result'.errors = result.errors + 1
       /\ result'.exported = result.exported
       /\ ~result'.rateLimited
       /\ pc' \in {"post", "newPost"}
       /\ loc'.bookmarksPage = loc.bookmarksPage
       /\ loc'.i = loc.i + 1
       /\ persisted' = persisted]_vars

\* a post failed and the post after it is being processed
C7_Witness ==
  /\ pc = "write" /\ loc.i > 0
  /\ result.errors = 1 /\ Len(errorLog) = 1
  /\ errorLog[1].tweetId = loc.bookmarksPage[loc.i].id
  /\ ~result.rateLimited

\* C8: a rate-limit answer of a client call, thrown or returned, always ends
\* the invocation with rateLimited = true, and no entry of the error log
\* records a rate limit.
C8_RateLimitPropagates ==
  /\ g.rlRaised => pc \in {"rlCatch", "done"}
  /\ (RunEnded /\ g.rlRaised) => result.rateLimited
  /\ \A k \in 1..Len(errorLog) : errorLog[k].error # "rateLimit"

\* C9: at the end of an invocation every post visited has incremented exactly
\* one of exported, skipped and errors, except the post at which a rate limit
\* or a boundary stop ended the scan, which has incremented none.
C9_RunCounters ==
  (RunEnded /\ g.outcome # "threw") =>
     result.exported + result.skipped + result.errors
        = Len(g.visited) + g.newVisited - g.stops

\* C10: with maxPages = M an invocation fetches at most M bookmark pages, and
\* when the cap ends it the checkpoint holds a cursor and no remainder,
\* finishRun has not been called and rateLimited is false.
C10_MaxPagesCap ==
  /\ cfg.maxPages # 0 => g.pageFetches <= cfg.maxPages
  /\ (RunEnded /\ g.outcome \in {"cap", "capNew"}) =>
        /\ persisted.nextCursor # 0
        /\ ~persisted.hasPage
        /\ ~g.finishCalled
        /\ ~result.rateLimited

LoadedRemainder == g.startState.hasPage /\ Len(g.startState.currentPageBookmarks) > 0

\* C11 as stated: with a non-empty remainder in the loaded checkpoint, the
\* first page iteration works on that remainder and no bookmark page has been
\* fetched by then; the first page fetch of the invocation uses the loaded
\* nextCursor.
C11_ResumeBeforeAnyFetch ==
  LoadedRemainder =>
     /\ (InMain /\ g.outcome = "running" /\ loc.pageNum = g.startState.currentPage + 1) =>
           /\ loc.bookmarksPage = g.startState.currentPageBookmarks
           /\ g.pageFetches = 0
     /\ g.firstCursor # -1 => g.firstCursor = g.startState.nextCursor

\* C11, main loop: with a non-empty remainder in the loaded checkpoint, the
\* first page iteration of the main loop works on exactly that remainder
\* without a page fetch of the main loop, and the first page fetch of the
\* main loop uses the loaded nextCursor.
C11_ResumeFromRemainder ==
  LoadedRemainder =>
     /\ (InMain /\ g.outcome = "running" /\ loc.pageNum = g.startState.currentPage + 1) =>
           /\ loc.bookmarksPage = g.startState.currentPageBookmarks
           /\ g.mainFetches = 0
     /\ (InMain /\ pc = "mainTop" /\ loc.pageNum = g.startState.currentPage) =>
           /\ state.currentPageBookmarks = g.startState.currentPageBookmarks
           /\ state.nextCursor = g.startState.nextCursor
     /\ g.firstMainCursor # -1 => g.firstMainCursor = g.startState.nextCursor

\* a remainder of two posts was resumed and visited, then the page behind the
\* loaded cursor was fetched
C11_Witness ==
  /\ LoadedRemainder
  /\ Len(g.startState.currentPageBookmarks) = 2
  /\ g.startState.nextCursor # 0
  /\ g.firstMainCursor = g.startState.nextCursor
  /\ Len(g.visited) >= 2


\* ------------------------------------------------------- C12
\* An output directory written by earlier exports, at a time when every
\* author still had the handle "a"; since then the authors in R have changed
\* their handle, and the bookmark page reports the current one.
InitRename ==
  /\ top = 2
  /\ \E R \in SUBSET {1, 2, 3} : handle = [p \in Posts |-> IF p \in R THEN "b" ELSE "a"]
  /\ \E D \in SUBSET {1, 2, 3} : disk = {[id |-> p, user |-> "a"] : p \in D}
  /\ errorLog = <<>>
  /\ persisted = EmptyState
  /\ pc = "idle"
  /\ cfg = NoCfg
  /\ state = EmptyState
  /\ result = NoResult
  /\ loc = NoLoc
  /\ pb = NoPb
  /\ env = [runs |-> MaxRuns - 1, singles |-> MaxSingle]
  /\ g = NoHist

\* one invocation of exportBookmarks on that directory
NextRename ==
  \/ Exit
  \/ \E mp \in MaxPagesOptions, nf \in BOOLEAN : StartRun(mp, nf)
  \/ \E o \in CallOutcomes : MainFetch(o)
  \/ Check3Stop
  \/ Check3Pass
  \/ PostLoopEnd
  \/ PostSkip
  \/ PostBegin
  \/ PageEndCap
  \/ PageEndNext
  \/ PageEndLast
  \/ FinishRun
  \/ \E o \in CallOutcomes, more \in BOOLEAN : GetThread(o, more)
  \/ QuoteOriginalReturn
  \/ \E o \in CallOutcomes : QuoteOriginalFetch(o)
  \/ \E k \in 0..MaxThread : ThreadQuotesStart(k)
  \/ \E d \in DOMAIN NoTasks, o \in CallOutcomes, more \in BOOLEAN : ThreadQuoteAnswer(d, o, more)
  \/ \E o \in {"ok", "errThrown", "errAfter"}, ns \in 0..MaxLinks, na \in 0..MaxLinks :
        WriteBookmark(o, ns, na)
  \/ \E o \in CallOutcomes : FetchLinkedTweet(o)
  \/ \E o \in ArticleOutcomes : FetchArticleTweet(o)
  \/ CommitPost
  \/ CatchRateLimit

SpecRename == InitRename /\ [][NextRename]_vars

\* C12: in normal mode a post whose file is already on disk for its id is
\* never processed again and never written again, whatever handle the
\* bookmark page reports for its author.
C12_ExistenceById ==
  [][/\ \A p \in g'.processed \ g.processed : ~bookmarkExistsById(disk, p)
     /\ \A f \in disk' \ disk : ~bookmarkExistsById(disk, f.id)]_vars


\* ------------------------------------------------------- rebuild mode
\* exporter.ts 782-1056 exportBookmarksRebuild.  A bookmark file is
\* [id, user, replies, fm]: whether its text has a "## Replies" section and
\* whether it starts with generated frontmatter.

\* state.ts findBookmarkPath: the files the glob date-*-id.md matches
findBookmarkPath(d, id) == {f \in d : f.id = id}

ExistingFile == CHOOSE f \in findBookmarkPath(disk, CurrentTweet.id) : TRUE

bookmarkHasReplies(f) == f.replies
bookmarkHasFrontmatter(f) == f.fm

\* a replies backfill that does not look at includeReplies
RepliesWithoutFlag(f) == cfg.backfillReplies /\ ~bookmarkHasReplies(f)

\* exporter.ts 883-885 and 919-921: the conditions under which a backfill acts
NeedsFrontmatter(f) == cfg.backfillFrontmatter /\ ~bookmarkHasFrontmatter(f)
NeedsReplies(f) == cfg.backfillReplies /\ cfg.includeReplies /\ ~bookmarkHasReplies(f)

\* History: a sub-operation acts on the post at hand
Op(h, name, f) ==
  [h EXCEPT !.ops = @ \cup {[op |-> name, id |-> CurrentTweet.id,
                            replies |-> f.replies, fm |-> f.fm]}]

\* a rebuild that ignores the saved cursor
FromBeginning(s) == 0

\* exporter.ts 814: let cursor = state.nextCursor
ResumeCursor(s) == s.nextCursor

\* exporter.ts 782-827
StartRebuild(mp, ir, br, bf) ==
  /\ pc = "idle"
  /\ env.runs < MaxRuns
  /\ env' = [env EXCEPT !.runs = @ + 1]
  /\ cfg' = [NoCfg EXCEPT !.maxPages = mp, !.includeReplies = ir,
                          !.backfillReplies = br, !.backfillFrontmatter = bf]
  /\ state' = IF persisted.nextCursor # 0 THEN persisted
              ELSE [persisted EXCEPT !.hasPage = FALSE, !.currentPageBookmarks = <<>>,
                                     !.currentPage = 0]
  /\ result' = NoResult
  /\ loc' = [NoLoc EXCEPT !.pageNum = persisted.currentPage, !.cursor = ResumeCursor(persisted)]
  /\ pc' = "rbFetch"
  /\ pb' = NoPb
  /\ g' = [NoHist EXCEPT !.outcome = "running", !.startState = persisted,
                         !.afterRateLimit = g.prevRateLimited,
                         !.lastMainFetch = g.lastMainFetch]
  /\ UNCHANGED <<top, handle, disk, errorLog, persisted>>

\* a rate-limit exit that saves the cursor of the page after the one at hand
RebuildRateLimitNext(st, res, h) ==
  /\ state' = [st EXCEPT !.nextCursor = loc.nextCursor]
  /\ persisted' = [st EXCEPT !.nextCursor = loc.nextCursor]
  /\ Return([res EXCEPT !.rateLimited = TRUE], "rlRebuild", h)

\* exporter.ts 982-989 and 1041-1047: save the cursor of the page at hand, return
RebuildRateLimit(st, res, h) ==
  /\ state' = [st EXCEPT !.nextCursor = loc.cursor]
  /\ persisted' = [st EXCEPT !.nextCursor = loc.cursor]
  /\ Return([res EXCEPT !.rateLimited = TRUE], "rlRebuild", h)

\* exporter.ts 829-863 and 1040-1049: fetch the page at `cursor`
RebuildFetch(o) ==
  /\ pc = "rbFetch"
  /\ LET st1 == [state EXCEPT !.currentPage = loc.pageNum + 1]
         loc1 == [loc EXCEPT !.pageNum = @ + 1, !.pagesFetchedThisRun = @ + 1]
         h == [Answered(FetchedAt(PageFetched(g), loc.cursor, TRUE), o)
                 EXCEPT !.pages = Append(@, PageIndex(loc.cursor))]
         page == PageTweets(loc.cursor)
         nc == PageNextCursor(loc.cursor)
     IN CASE o = "rlThrown" ->
               /\ loc' = loc1
               /\ RebuildRateLimit(st1, result, h)
          [] o \in {"errThrown", "errResult", "rlResult"} ->
               /\ loc' = loc1
               /\ state' = st1
               /\ Return(result, "threw", h)
               /\ UNCHANGED persisted
          [] o = "ok" /\ Len(page) = 0 /\ nc # 0 ->
               /\ loc' = [loc1 EXCEPT !.cursor = nc]
               /\ state' = [st1 EXCEPT !.nextCursor = nc]
               /\ persisted' = [st1 EXCEPT !.nextCursor = nc]
               /\ g' = h
               /\ UNCHANGED <<pc, result, pb>>
          [] o = "ok" /\ Len(page) = 0 /\ nc = 0 ->
               /\ loc' = [loc1 EXCEPT !.completedFullScan = TRUE]
               /\ state' = st1
               /\ pc' = "finish"
               /\ g' = h
               /\ UNCHANGED <<persisted, result, pb>>
          [] o = "ok" /\ Len(page) > 0 ->
               /\ loc' = [loc1 EXCEPT !.bookmarksPage = page, !.nextCursor = nc, !.i = 0]
               /\ state' = st1
               /\ pc' = "rbPost"
               /\ g' = h
               /\ UNCHANGED <<persisted, result, pb>>
  /\ UNCHANGED <<top, handle, disk, errorLog, cfg, env>>

\* markdown.ts 630-734 writeBookmarkMarkdown: the file it leaves; with
\* frontmatterOnly the body of the file under the current handle is kept
Written(d, tweet, replies, keepBody) ==
  LET old == {f \in d : f.id = tweet.id /\ f.user = tweet.user}
  IN (d \ old) \cup {[id |-> tweet.id, user |-> tweet.user, fm |-> TRUE,
                      replies |-> IF keepBody /\ old # {}
                                  THEN \E f \in old : f.replies ELSE replies]}

\* exporter.ts 871-917: an existing post, the frontmatter backfill
RebuildFrontmatter(o) ==
  /\ pc = "rbPost"
  /\ loc.i < Len(loc.bookmarksPage)
  /\ findBookmarkPath(disk, CurrentTweet.id) # {}
  /\ (o = "skip") <=> ~NeedsFrontmatter(ExistingFile)
  /\ LET h == IF o = "skip" THEN g ELSE Op(Called(g), "frontmatter", ExistingFile)
     IN CASE o = "skip" ->
               /\ pc' = "rbReplies"
               /\ g' = h
               /\ UNCHANGED <<disk, errorLog, persisted, state, result, pb>>
          [] o = "ok" ->
               /\ disk' = Written(disk, CurrentTweet, FALSE, TRUE)
               /\ result' = [result EXCEPT !.frontmatterAdded = @ + 1]
               /\ pc' = "rbReplies"
               /\ g' = h
               /\ UNCHANGED <<errorLog, persisted, state, pb>>
          [] o = "errThrown" ->
               /\ CanLog
               /\ errorLog' = appendError(errorLog, CurrentTweet.id, "failure", "frontmatter")
               /\ result' = [result EXCEPT !.errors = @ + 1]
               /\ pc' = "rbReplies"
               /\ g' = h
               /\ UNCHANGED <<disk, persisted, state, pb>>
          [] o = "rl" ->
               /\ RebuildRateLimit(state, result, h)
               /\ UNCHANGED <<disk, errorLog>>
  /\ UNCHANGED <<top, handle, cfg, loc, env>>

\* exporter.ts 919-959 and 750-779: an existing post, the replies backfill
RebuildReplies(o) ==
  /\ pc = "rbReplies"
  /\ (o = "skip") <=> ~NeedsReplies(ExistingFile)
  /\ LET h == IF o = "skip" THEN g ELSE Op(Called(g), "replies", ExistingFile)
         f == ExistingFile
         skipped == [result EXCEPT !.skipped = @ + 1]
     IN CASE o \in {"skip", "none"} ->
               /\ result' = skipped
               /\ UNCHANGED <<disk, errorLog, persisted, state>>
               /\ g' = h /\ pc' = "rbPost" /\ pb' = pb
               /\ loc' = [loc EXCEPT !.i = @ + 1]
          [] o = "found" ->
               /\ disk' = (disk \ {f}) \cup {[f EXCEPT !.replies = TRUE]}
               /\ result' = [skipped EXCEPT !.backfilled = @ + 1]
               /\ UNCHANGED <<errorLog, persisted, state>>
               /\ g' = h /\ pc' = "rbPost" /\ pb' = pb
               /\ loc' = [loc EXCEPT !.i = @ + 1]
          [] o = "errThrown" ->
               /\ CanLog
               /\ errorLog' = appendError(errorLog, CurrentTweet.id, "failure", "replies")
               /\ result' = [skipped EXCEPT !.errors = @ + 1]
               /\ UNCHANGED <<disk, persisted, state>>
               /\ g' = h /\ pc' = "rbPost" /\ pb' = pb
               /\ loc' = [loc EXCEPT !.i = @ + 1]
          [] o = "rl" ->
               /\ RebuildRateLimit(state, result, h)
               /\ UNCHANGED <<disk, errorLog, loc>>
  /\ UNCHANGED <<top, handle, cfg, env>>

\* exporter.ts 961-1001: a post with no file, the full export; r: replies were found
RebuildNew(o, r) ==
  /\ pc = "rbPost"
  /\ loc.i < Len(loc.bookmarksPage)
  /\ findBookmarkPath(disk, CurrentTweet.id) = {}
  /\ r => (cfg.includeReplies /\ o \in {"ok", "rlAfter"})
  /\ LET h == Op(Called(g), "export", [replies |-> FALSE, fm |-> FALSE])
         exported == [result EXCEPT !.exported = @ + 1]
     IN CASE o = "ok" ->
               /\ disk' = Written(disk, CurrentTweet, r, FALSE)
               /\ result' = exported
               /\ loc' = [loc EXCEPT !.i = @ + 1]
               /\ g' = h
               /\ UNCHANGED <<errorLog, persisted, state, pc, pb>>
          [] o = "errThrown" ->
               /\ CanLog
               /\ errorLog' = appendError(errorLog, CurrentTweet.id, "failure", "rebuild")
               /\ result' = [result EXCEPT !.errors = @ + 1]
               /\ loc' = [loc EXCEPT !.i = @ + 1]
               /\ g' = h
               /\ UNCHANGED <<disk, persisted, state, pc, pb>>
          [] o = "rlBefore" ->
               /\ RebuildRateLimit(state, result, h)
               /\ UNCHANGED <<disk, errorLog, loc>>
          [] o = "rlAfter" ->
               /\ disk' = Written(disk, CurrentTweet, r, FALSE)
               /\ RebuildRateLimit(state, exported, h)
               /\ UNCHANGED <<errorLog, loc>>
  /\ UNCHANGED <<top, handle, cfg, env>>

\* exporter.ts 1004-1038: after the page
RebuildPageEnd ==
  /\ pc = "rbPost"
  /\ loc.i = Len(loc.bookmarksPage)
  /\ LET st1 == [state EXCEPT !.nextCursor = loc.nextCursor, !.hasPage = FALSE,
                              !.currentPageBookmarks = <<>>]
         loc1 == [loc EXCEPT !.cursor = loc.nextCursor]
     IN /\ state' = st1
        /\ persisted' = st1
        /\ IF CapReached(loc.pagesFetchedThisRun) /\ loc.nextCursor # 0
           THEN loc' = loc1 /\ Return(result, "cap", g)
           ELSE /\ loc' = [loc1 EXCEPT !.completedFullScan = (loc.nextCursor = 0)]
                /\ pc' = IF loc.nextCursor = 0 THEN "finish" ELSE "rbFetch"
                /\ UNCHANGED <<result, pb, g>>
  /\ UNCHANGED <<top, handle, disk, errorLog, cfg, env>>

\* An output directory in which posts 1 and 2 may have a file, with or
\* without a replies section and frontmatter (the file of post 2 has both or
\* neither); post 2 may be the boundary of a finished normal-mode run.
InitRebuild ==
  /\ top = 2
  /\ handle = [p \in Posts |-> "a"]
  /\ \E D \in SUBSET ({1, 2} \X BOOLEAN \X BOOLEAN) :
        /\ \A x, y \in D : x[1] = y[1] => x = y
        /\ \A x \in D : x[1] = 2 => x[2] = x[3]
        /\ disk = {[id |-> x[1], user |-> "a", replies |-> x[2], fm |-> x[3]] : x \in D}
  /\ errorLog = <<>>
  /\ \E b \in {0, 2} :
        /\ b # 0 => findBookmarkPath(disk, b) # {}
        /\ persisted = [EmptyState EXCEPT !.previousFirstExported = b]
  /\ pc = "idle"
  /\ cfg = NoCfg
  /\ state = EmptyState
  /\ result = NoResult
  /\ loc = NoLoc
  /\ pb = NoPb
  /\ env = [runs |-> 0, singles |-> MaxSingle]
  /\ g = NoHist

NextRebuild ==
  \/ Exit
  \/ \E mp \in {0, 1}, ir, br, bf \in BOOLEAN : StartRebuild(mp, ir, br, bf)
  \/ \E o \in CallOutcomes : RebuildFetch(o)
  \/ \E o \in {"skip", "ok", "errThrown", "rl"} : RebuildFrontmatter(o)
  \/ \E o \in {"skip", "found", "none", "errThrown", "rl"} : RebuildReplies(o)
  \/ \E o \in {"ok", "errThrown", "rlBefore", "rlAfter"}, r \in BOOLEAN : RebuildNew(o, r)
  \/ RebuildPageEnd
  \/ FinishRun

SpecRebuild == InitRebuild /\ [][NextRebuild]_vars

\* ------------------------------------------------------- C13
\* why and where an invocation of exportBookmarksRebuild ended: it visited
\* consecutive pages, each to its last post, and ended at the end of the
\* list, at the max-pages cap, at a rate limit or at a failed page fetch,
\* never at the boundary id or at an existing post
RebuildStops ==
  /\ ~result.hitPreviousExport
  /\ \A k \in 1..(Len(g.pages) - 1) : g.pages[k + 1] = g.pages[k] + 1
  /\ RunEnded =>
       /\ g.outcome \in {"finished", "cap", "rlRebuild", "threw"}
       /\ g.outcome = "finished" =>
            /\ g.pages # <<>>
            /\ g.pages[Len(g.pages)] = Len(AllPages)
            /\ loc.i = Len(loc.bookmarksPage)
       /\ g.outcome = "cap" =>
            /\ CapReached(loc.pagesFetchedThisRun)
            /\ loc.i = Len(loc.bookmarksPage)

\* C13 as stated: every invocation of exportBookmarksRebuild starts at the
\* first page of the bookmark list, with no cursor, and never stops because
\* of previousFirstExported or of existing posts: it visits every page until
\* the list ends, a rate limit occurs or the max-pages cap is reached.
C13_RebuildFromStart ==
  /\ g.firstCursor # -1 => g.firstCursor = 0
  /\ RebuildStops

\* C13, amended: an invocation of exportBookmarksRebuild starts at the cursor
\* the checkpoint holds, and at the first page only when it holds none; from
\* there it never stops because of previousFirstExported or of existing
\* posts: it visits every page until the list ends, a rate limit occurs, a
\* page fetch fails or the max-pages cap is reached.
C13_RebuildFromCursor ==
  /\ g.firstCursor # -1 => g.firstCursor = g.startState.nextCursor
  /\ RebuildStops

\* a rebuild resumed at a saved cursor, with a boundary id in the checkpoint,
\* that skipped an existing post and went on to the end of the list
C13_Witness ==
  /\ RunEnded
  /\ g.outcome = "finished"
  /\ g.startState.nextCursor # 0
  /\ g.firstCursor = g.startState.nextCursor
  /\ g.startState.previousFirstExported # 0
  /\ result.skipped > 0

\* ------------------------------------------------------- C14
\* C14: in exportBookmarksRebuild the replies backfill issues its
\* conversation query only when backfillReplies and includeReplies are both
\* set and the stored file has no replies section; the frontmatter backfill
\* reprocesses a post only when backfillFrontmatter is set and the file has no
\* generated frontmatter; a post that satisfies the predicate causes no
\* client call and no write.
C14_BackfillGating ==
  [][/\ \A x \in g'.ops \ g.ops :
          /\ x.op = "replies" =>
                cfg.backfillReplies /\ cfg.includeReplies /\ ~x.replies
          /\ x.op = "frontmatter" => cfg.backfillFrontmatter /\ ~x.fm
     /\ \A f \in disk' \ disk : \E x \in g'.ops \ g.ops : x.id = f.id]_vars

\* with all three options set, one existing post got its frontmatter and its
\* replies while another, which had both, was passed over
C14_Witness ==
  /\ cfg.backfillReplies /\ cfg.includeReplies /\ cfg.backfillFrontmatter
  /\ result.backfilled = 1
  /\ result.frontmatterAdded = 1
  /\ result.skipped = 2
  /\ Cardinality({x.id : x \in g.ops}) = 1

\* ------------------------------------------------------- expandThread
\* thread.ts 18-115, and the second definition of expandThread the
\* repository holds at exporter.ts 1075-1176, which differs in the reply
\* filter.  A conversation is a function from tweet ids 1..MaxConv to
\* [author, inReplyTo]; a reply targets an older tweet.  Tweet 2 is the
\* bookmarked tweet, tweet 1 its ancestor.
MaxConv == 6
Original == 2

\* String.prototype.toLowerCase on the handles of the model
toLowerCase(u) == IF u = "A" THEN "a" ELSE u

\* what tweet k of a conversation can be: tweet 1 is by anybody and replies
\* to nothing, the bookmarked tweet is by "a", a later tweet replies to one of
\* the three tweets before it
TweetsAt(k) ==
  [author : IF k = Original THEN {"a"} ELSE IF k = 3 THEN {"a", "A", "b"} ELSE {"a", "b"},
   inReplyTo : IF k = 1 THEN {0} ELSE IF k = Original THEN {0, 1}
               ELSE {j \in 1..(k - 1) : j >= k - 3}]

RECURSIVE ConversationsOf(_)
ConversationsOf(n) ==
  IF n = 0 THEN {<<>>}
  ELSE {Append(c, t) : c \in ConversationsOf(n - 1), t \in TweetsAt(n)}

Conversations == ConversationsOf(MaxConv)

\* result.tweets of client.getThread: the conversation, oldest or newest first
ThreadResult(order) ==
  [j \in 1..MaxConv |-> IF order = "asc" THEN j ELSE MaxConv + 1 - j]

\* the views of the conversation a response can be: whole, without the tweet
\* Varying, or with it twice
Varying == 4
Views == {-Varying, 0, Varying}

\* a continuation test that does not look at what the tweet replies to
isByAuthor(c, k, currentTweetId) ==
  /\ k # currentTweetId
  /\ toLowerCase(c[k].author) = toLowerCase(c[Original].author)

\* thread.ts 57-61
isThreadContinuation(c, k, currentTweetId) ==
  /\ k # currentTweetId
  /\ toLowerCase(c[k].author) = toLowerCase(c[Original].author)
  /\ c[k].inReplyTo = currentTweetId

\* thread.ts 99
threadTweetIds(t) == {Original} \cup {t.threadTweets[j] : j \in 1..Len(t.threadTweets)}

\* thread.ts 101-112: the filter of potentialReplies
threadFilter(t, k) ==
  /\ k \notin threadTweetIds(t)
  /\ ~(/\ toLowerCase(t.conv[k].author) = toLowerCase(t.conv[Original].author)
       /\ t.conv[k].inReplyTo # 0
       /\ t.conv[k].inReplyTo \in threadTweetIds(t))

\* exporter.ts 1160-1173: the filter of potentialReplies in the second definition
exporterFilter(t, k) ==
  /\ k \notin threadTweetIds(t)
  /\ t.conv[k].inReplyTo # 0
  /\ t.conv[k].inReplyTo \in threadTweetIds(t)
  /\ toLowerCase(t.conv[k].author) # toLowerCase(t.conv[Original].author)

\* result.tweets of one client.getThread call: the conversation without the
\* tweet -v (v < 0), or with the tweet v a second time (v > 0), or as it is
Response(order, v) ==
  IF v < 0 THEN SelectSeq(ThreadResult(order), LAMBDA k : k # -v)
  ELSE IF v > 0 THEN Append(ThreadResult(order), v)
  ELSE ThreadResult(order)

\* a candidate test that takes a tweet again
notCollectedEver(res, j) == TRUE

\* thread.ts 65: !potentialReplies.some((r) => r.id === tweet.id), for the
\* tweet at place j of the first response
notCollected(res, j) == \A i \in 1..(j - 1) : res[i] # res[j]

\* thread.ts 53-69 on the first call: the tweets of the response that are
\* pushed to potentialReplies; skip holds the queried tweet and the
\* continuations
collectReplies(res, skip) ==
  LET places == SelectSeq([j \in 1..Len(res) |-> j],
                          LAMBDA j : res[j] \notin skip /\ notCollected(res, j))
  IN [i \in 1..Len(places) |-> res[places[i]]]

\* thread.ts 31-88: one turn of the loop; the call fails without rate-limit
\* text (thrown or as a result: the loop ends), is rate limited (thrown or as
\* a result: expandThread throws) or answers with the response of view v; the
\* first response is any view, the later ones are whole
ThreadQuery(o, v) ==
  /\ pc = "thQuery"
  /\ (o # "ok" \/ ~pb.isFirstCall) => v = 0
  /\ LET res == Response(pb.order, v)
         cont == {k \in 1..MaxConv :
                    /\ \E j \in 1..Len(res) : res[j] = k
                    /\ isThreadContinuation(pb.conv, k, pb.currentTweetId)}
         \* the last continuation in the order of the result
         authorReply == res[CHOOSE j \in 1..Len(res) :
                              /\ res[j] \in cont
                              /\ \A i \in (j + 1)..Len(res) : res[i] \notin cont]
         collected == collectReplies(res, cont \cup {pb.currentTweetId})
         pb1 == [pb EXCEPT !.last = [o |-> o, v |-> v], !.queries = @ + 1]
         pb2 == [pb1 EXCEPT !.isFirstCall = FALSE,
                            !.first = IF pb.isFirstCall THEN v ELSE @,
                            !.potentialReplies = IF pb.isFirstCall THEN collected ELSE @]
     IN CASE IsRateLimit(o) -> pc' = "thThrew" /\ pb' = pb1
          [] o = "ok" /\ cont = {} -> pc' = "thFilter" /\ pb' = pb2
          [] o = "ok" /\ cont # {} ->
               /\ pc' = "thQuery"
               /\ pb' = [pb2 EXCEPT !.threadTweets = Append(@, authorReply),
                                    !.currentTweetId = authorReply]
          [] OTHER -> pc' = "thFilter" /\ pb' = pb1
  /\ UNCHANGED <<top, handle, disk, errorLog, persisted, cfg, state, result, loc, env, g>>

\* thread.ts 90-114
ThreadReturn(includeReplies) ==
  /\ pc = "thFilter"
  /\ pc' = "thDone"
  /\ pb' = [pb EXCEPT
        !.includeReplies = includeReplies,
        !.replies =
           IF ~includeReplies THEN <<>>
           ELSE IF pb.definition = "thread.ts"
           THEN SelectSeq(pb.potentialReplies, LAMBDA k : threadFilter(pb, k))
           ELSE SelectSeq(pb.potentialReplies, LAMBDA k : exporterFilter(pb, k))]
  /\ UNCHANGED <<top, handle, disk, errorLog, persisted, cfg, state, result, loc, env, g>>

\* expandThread is called on a conversation, with the definition of thread.ts
\* or with the one of exporter.ts
InitThread ==
  /\ top = 2
  /\ handle = [p \in Posts |-> "a"]
  /\ disk = {}
  /\ errorLog = <<>>
  /\ persisted = EmptyState
  /\ pc = "thQuery"
  /\ cfg = NoCfg
  /\ state = EmptyState
  /\ result = NoResult
  /\ loc = NoLoc
  /\ \E c \in Conversations, ord \in {"asc", "desc"}, def \in {"thread.ts", "exporter.ts"} :
        pb = [conv |-> c, order |-> ord, definition |-> def, threadTweets |-> <<>>,
              potentialReplies |-> <<>>, currentTweetId |-> Original,
              isFirstCall |-> TRUE, includeReplies |-> FALSE, replies |-> <<>>,
              first |-> 0, last |-> [o |-> "none", v |-> 0], queries |-> 0]
  /\ env = [runs |-> 0, singles |-> 0]
  /\ g = NoHist

NextThread ==
  \/ \E o \in CallOutcomes, v \in Views : ThreadQuery(o, v)
  \/ \E ir \in BOOLEAN : ThreadReturn(ir)

SpecThread == InitThread /\ [][NextThread]_vars

\* ------------------------------------------------------- C15
\* the first-call candidates that are no continuation members, whose reply
\* target is the original tweet or a continuation member and whose author is
\* not the original tweet's author, in the order of the result
DirectReplies ==
  SelectSeq(ThreadResult(pb.order),
            LAMBDA k : /\ k # Original
                       /\ k \notin threadTweetIds(pb)
                       /\ pb.conv[k].inReplyTo \in threadTweetIds(pb)
                       /\ toLowerCase(pb.conv[k].author) # toLowerCase(pb.conv[Original].author))

\* C15: with includeReplies = true, when the first query answers, replies
\* consists of the first-call candidates that are not continuation members,
\* whose reply target is in {R} \cup continuation and whose author differs from
\* R's: for R, C1 -> R and C2 -> C1 by R's author, O1 -> R and O2 -> C2 by others
\* and an ancestor A, threadTweets = [C1, C2] and replies = [O1, O2].
C15_ReplyClassification ==
  (pc = "thDone" /\ pb.includeReplies /\ ~pb.isFirstCall /\ pb.first >= 0)
  => pb.replies = DirectReplies

\* ------------------------------------------------------- quote depth
\* index.ts 29-34 and exporter.ts 203-245.  The bookmarked tweet heads a
\* chain of `chain` nested quotes; the data of a tweet holds the tweet it
\* quotes, one level deep, and getTweet gives that tweet with its own quote.
MaxChain == 25
\* a cyclic chain leads back to the bookmarked tweet after at most MaxCycle quotes
MaxCycle == 2
QUOTE_DEPTH_CAP == 20

\* an argument parser that passes -1 on
quoteDepthAsGiven(parsed) == parsed

\* index.ts 33
parseQuoteDepth(parsed) == IF parsed = -1 THEN QUOTE_DEPTH_CAP ELSE parsed

\* index.ts 22-34 and 108: --quote-depth <val> becomes config.quoteDepth
ParseArgs ==
  /\ pc = "args"
  /\ cfg' = [cfg EXCEPT !.quoteDepth = parseQuoteDepth(pb.arg)]
  /\ pb' = [pb EXCEPT !.remainingDepth = parseQuoteDepth(pb.arg)]
  /\ pc' = "expand"
  /\ UNCHANGED <<top, handle, disk, errorLog, persisted, state, result, loc, env, g>>

\* a recursive call that passes its own depth on
sameDepth(remainingDepth) == remainingDepth

\* exporter.ts 228-232: the recursive call receives remainingDepth - 1
nextDepth(remainingDepth) == remainingDepth - 1

\* exporter.ts 213, tweet.quotedTweet: the tweet `at` quotes below the
\* bookmarked one quotes another; on a cyclic chain every tweet does
hasQuotedTweet(t) == t.cyclic \/ t.at < t.chain

\* exporter.ts 207-245: one call of expandQuotedTweets, on the tweet `at`
\* quotes below the bookmarked one: it returns the tweet as it is, its own
\* quote included, or fetches the quoted tweet and expands that one
expandQuotedTweets(o) ==
  /\ pc = "expand"
  /\ (o = "return") <=> (pb.remainingDepth <= 1 \/ ~hasQuotedTweet(pb))
  /\ o # "return" => pb.fetches <= MaxChain
  /\ pb' = CASE o = "ok" -> [pb EXCEPT !.at = @ + 1,
                                       !.remainingDepth = nextDepth(@),
                                       !.fetches = @ + 1]
             [] o = "rlThrown" -> [pb EXCEPT !.fetches = @ + 1, !.failed = TRUE]
             [] o \in {"errThrown", "errResult", "rlResult"} ->
                  [pb EXCEPT !.fetches = @ + 1, !.failed = TRUE,
                             !.levels = pb.at + 1]
             [] o = "return" ->
                  [pb EXCEPT !.levels = IF hasQuotedTweet(pb) THEN pb.at + 1 ELSE pb.at]
  /\ pc' = CASE o = "ok" -> "expand" [] o = "rlThrown" -> "threw" [] OTHER -> "expanded"
  /\ UNCHANGED <<top, handle, disk, errorLog, persisted, cfg, state, result, loc, env, g>>

InitQuote ==
  /\ top = 2
  /\ handle = [p \in Posts |-> "a"]
  /\ disk = {}
  /\ errorLog = <<>>
  /\ persisted = EmptyState
  /\ pc = "args"
  /\ cfg = NoCfg
  /\ state = EmptyState
  /\ result = NoResult
  /\ loc = NoLoc
  /\ \E val \in -1..MaxChain, n \in 0..MaxChain, cyc \in BOOLEAN :
        /\ cyc => n <= MaxCycle
        /\ pb = [arg |-> val, chain |-> n, cyclic |-> cyc, remainingDepth |-> 0,
                 at |-> 0, fetches |-> 0, levels |-> 0, failed |-> FALSE]
  /\ env = [runs |-> 0, singles |-> 0]
  /\ g = NoHist

NextQuote ==
  \/ ParseArgs
  \/ \E o \in CallOutcomes \cup {"return"} : expandQuotedTweets(o)

SpecQuote == InitQuote /\ [][NextQuote]_vars

\* ------------------------------------------------------- C16
\* the quotes nested below the bookmarked tweet: more than any depth on a cycle
Nesting == IF pb.cyclic THEN MaxChain + 1 ELSE pb.chain

\* C16: --quote-depth -1 sets quoteDepth to 20; with it a chain of nested
\* quotes is expanded exactly 20 levels deep: the result holds the quotes of
\* the levels 1 to 20 (19 of them fetched, the 20th as its quoter's data
\* holds it) and nothing of the 21st.
C16_UnlimitedDepth ==
  /\ (pc # "args" /\ pb.arg = -1) => cfg.quoteDepth = 20
  /\ (pc = "expanded" /\ pb.arg = -1 /\ ~pb.failed) =>
        /\ pb.levels = Min(Nesting, 20)
        /\ pb.fetches = Min(Nesting, 20 - 1)

\* a chain of 25 nested quotes, expanded with --quote-depth -1
C16_Witness ==
  /\ pc = "expanded"
  /\ pb.arg = -1
  /\ pb.chain = 25
  /\ ~pb.failed
  /\ pb.levels = 20

\* ------------------------------------------------------- metadata cache
\* metadata-cache.ts.  pb holds the clock, the cache (a function from the
\* cached urls to their entries) and what the last call did.  Time is counted
\* in ticks, TicksPerDay to a day; a metadata value is a number, 0 is null.
MaxDays == 9
TicksPerDay == 2
CACHE_TTL_DAYS == 7

\* a freshness test that lets an entry of exactly CACHE_TTL_DAYS pass
isFreshInclusive(entry, now) == (now - entry.fetchedAt) <= CACHE_TTL_DAYS * TicksPerDay

\* metadata-cache.ts 54-60: diffDays < CACHE_TTL_DAYS
isFresh(entry, now) == (now - entry.fetchedAt) < CACHE_TTL_DAYS * TicksPerDay

\* metadata-cache.ts 63-76: the value getCachedMetadata returns
CachedValue(cache, url, now) ==
  IF url \in DOMAIN cache /\ isFresh(cache[url], now) THEN cache[url].metadata ELSE 0

\* a cache that stores nothing
cacheNothing(cache, url, metadata, now) == cache

\* metadata-cache.ts 79-92
cacheMetadata(cache, url, metadata, now) ==
  [x \in DOMAIN cache \cup {url} |->
     IF x = url THEN [metadata |-> metadata, fetchedAt |-> now] ELSE cache[x]]

\* metadata-cache.ts 29-41: what the cache file of a directory reads as; no
\* file and a file that does not parse give {}
NoEntries == [x \in {} |-> 0]
NoFile == [exists |-> FALSE, valid |-> FALSE, json |-> NoEntries]
ReadCache(file) == IF file.exists /\ file.valid THEN file.json ELSE NoEntries

\* metadata-cache.ts 24-46: the memory cache is kept when it was loaded for
\* this directory, and read from the directory's file otherwise
loadCache(t, dir) ==
  IF t.cacheLoaded /\ t.outputDir = dir THEN t
  ELSE [t EXCEPT !.cache = ReadCache(t.files[dir]), !.cacheLoaded = TRUE, !.outputDir = dir]

\* a saveCache that writes nothing
saveCacheLater(t, dir) == t

\* metadata-cache.ts 49-52: the whole memory cache is written to the file
saveCache(t, dir) ==
  [t EXCEPT !.files[dir] = [exists |-> TRUE, valid |-> TRUE, json |-> t.cache]]

\* History: the call that has just returned; c is the cache it looked at
LastCall(c, op, dir, url, returned, calls) ==
  [op |-> op, dir |-> dir, url |-> url, had |-> url \in DOMAIN c,
   age |-> IF url \in DOMAIN c THEN pb.now - c[url].fetchedAt ELSE 0,
   stored |-> IF url \in DOMAIN c THEN c[url].metadata ELSE 0,
   returned |-> returned, calls |-> calls]

\* time passes
Tick ==
  /\ pb.now < pb.horizon
  /\ pb' = [pb EXCEPT !.now = @ + 1, !.last = LastCall(pb.cache, "none", "", "", 0, 0)]
  /\ UNCHANGED <<top, handle, disk, errorLog, persisted, pc, cfg, state, result, loc, env, g>>

\* metadata-cache.ts 63-76
getCachedMetadata(dir, url) ==
  /\ LET t == loadCache(pb, dir)
     IN pb' = [t EXCEPT !.last = LastCall(t.cache, "get", dir, url,
                                          CachedValue(t.cache, url, pb.now), 0)]
  /\ UNCHANGED <<top, handle, disk, errorLog, persisted, pc, cfg, state, result, loc, env, g>>

\* a failed fetch that is cached as "no metadata"
fetcherThrewCached(t, dir, url, now) ==
  saveCache([t EXCEPT !.cache = cacheMetadata(@, url, 0, now)], dir)

\* metadata-cache.ts 107: the awaited fetcher throws, lines 108-109 do not
\* run and nothing catches: the caller gets the exception
fetcherThrew(t, dir, url, now) == t

\* metadata-cache.ts 95-110; fetched is what the fetcher answers, 0 when it
\* throws
getMetadataWithCache(dir, url, fetched) ==
  /\ LET t == loadCache(pb, dir)
         cached == CachedValue(t.cache, url, pb.now)
         \* lines 84-91, cacheMetadata: load, set the entry, save
         t1 == [loadCache(t, dir) EXCEPT !.cache = cacheMetadata(@, url, fetched, pb.now)]
     IN IF cached # 0
        THEN /\ fetched = 0
             /\ pb' = [t EXCEPT !.last = LastCall(t.cache, "with", dir, url, cached, 0)]
        ELSE IF fetched = 0
        THEN pb' = [fetcherThrew(t, dir, url, pb.now) EXCEPT
                      !.last = LastCall(t.cache, "with", dir, url, 0, 1)]
        ELSE pb' = [saveCache(t1, dir) EXCEPT
                      !.last = LastCall(t.cache, "with", dir, url, fetched, 1)]
  /\ UNCHANGED <<top, handle, disk, errorLog, persisted, pc, cfg, state, result, loc, env, g>>

NoLast ==
  [op |-> "none", dir |-> "", url |-> "", had |-> FALSE, age |-> 0,
   stored |-> 0, returned |-> 0, calls |-> 0]

\* a new process, one output directory: its cache file is missing, or does
\* not parse, or holds entries written just now
InitCache ==
  /\ top = 2
  /\ handle = [p \in Posts |-> "a"]
  /\ disk = {}
  /\ errorLog = <<>>
  /\ persisted = EmptyState
  /\ pc = "idle"
  /\ cfg = NoCfg
  /\ state = EmptyState
  /\ result = NoResult
  /\ loc = NoLoc
  /\ \E S \in SUBSET {"u1", "u2"}, ex \in BOOLEAN, ok \in BOOLEAN :
        /\ ~(ex /\ ok) => S = {}
        /\ pb = [now |-> 0, horizon |-> MaxDays * TicksPerDay, dirs |-> {"d1"},
                 cache |-> NoEntries, cacheLoaded |-> FALSE, outputDir |-> "",
                 files |-> [d \in {"d1"} |->
                              [exists |-> ex, valid |-> ok,
                               json |-> [x \in S |-> [metadata |-> 1, fetchedAt |-> 0]]]],
                 last |-> NoLast]
  /\ env = [runs |-> 0, singles |-> 0]
  /\ g = NoHist

\* a new process that is given two output directories in turn, for MaxShort
\* ticks
MaxShort == 2
InitCacheDirs ==
  /\ top = 2
  /\ handle = [p \in Posts |-> "a"]
  /\ disk = {}
  /\ errorLog = <<>>
  /\ persisted = EmptyState
  /\ pc = "idle"
  /\ cfg = NoCfg
  /\ state = EmptyState
  /\ result = NoResult
  /\ loc = NoLoc
  /\ \E S \in SUBSET {"u1", "u2"}, ok \in BOOLEAN :
        /\ ~ok => S = {}
        /\ pb = [now |-> 0, horizon |-> MaxShort, dirs |-> {"d1", "d2"},
                 cache |-> NoEntries, cacheLoaded |-> FALSE, outputDir |-> "",
                 files |-> [d \in {"d1", "d2"} |->
                              IF d = "d2" THEN NoFile
                              ELSE [exists |-> TRUE, valid |-> ok,
                                    json |-> [x \in S |-> [metadata |-> 1, fetchedAt |-> 0]]]],
                 last |-> NoLast]
  /\ env = [runs |-> 0, singles |-> 0]
  /\ g = NoHist

NextCache ==
  \/ Tick
  \/ \E dir \in pb.dirs, url \in {"u1", "u2"} : getCachedMetadata(dir, url)
  \/ \E dir \in pb.dirs, url \in {"u1", "u2"}, fetched \in 0..2 :
        getMetadataWithCache(dir, url, fetched)

SpecCache == InitCache /\ [][NextCache]_vars
SpecCacheDirs == InitCacheDirs /\ [][NextCache]_vars

\* ------------------------------------------------------- C17
\* C17: getMetadataWithCache(dir, url, fetcher) returns the stored value
\* without invoking fetcher when an entry for url younger than 7 days exists;
\* otherwise it invokes fetcher exactly once and stores the result with a new
\* fetchedAt, so that the following call for the same url within the TTL does
\* not invoke fetcher.
C17_FetchOnlyWhenStale ==
  pb.last.op = "with" =>
    LET young == pb.last.had /\ pb.last.age < 7 * TicksPerDay
    IN /\ young => (pb.last.calls = 0 /\ pb.last.returned = pb.last.stored)
       /\ ~young =>
            /\ pb.last.calls = 1
            /\ pb.last.returned # 0 =>
                 /\ pb.last.url \in DOMAIN pb.cache
                 /\ pb.cache[pb.last.url] = [metadata |-> pb.last.returned, fetchedAt |-> pb.now]

\* an entry that was refetched after it went stale serves the next call
C17_Witness ==
  /\ pb.last.op = "with"
  /\ pb.last.url = "u1"
  /\ pb.last.calls = 0
  /\ pb.last.returned = 2
  /\ pb.last.age = 1
  /\ pb.now > 7 * TicksPerDay

\* ------------------------------------------------------- C18
\* C18: getCachedMetadata returns null for an entry whose fetchedAt is 8 days
\* old and the metadata for one that is 6 days old: an entry is fresh exactly
\* when its age is strictly less than 7 days.
C18_FreshUnderSevenDays ==
  pb.last.op = "get" =>
    ((pb.last.returned # 0) <=> (pb.last.had /\ pb.last.age < 7 * TicksPerDay))
      /\ (pb.last.returned # 0 => pb.last.returned = pb.last.stored)

\* an entry of 8 days is refused while the other url has one of 6 days
C18_Witness ==
  /\ pb.last.op = "get"
  /\ pb.last.url = "u1"
  /\ pb.last.age = 8 * TicksPerDay
  /\ pb.last.returned = 0
  /\ "u2" \in DOMAIN pb.cache
  /\ pb.now - pb.cache["u2"].fetchedAt = 6 * TicksPerDay
  /\ CachedValue(pb.cache, "u2", pb.now) # 0

\* ------------------------------------------------------- finishRun
\* finishRun is called on a checkpoint file with any of its fields present
\* or absent, at the end of invocation 1 or 2
InitFinish ==
  /\ top = 2
  /\ handle = [p \in Posts |-> "a"]
  /\ disk = {}
  /\ errorLog = <<>>
  /\ \E nc \in {0, 3}, page \in {<<>>, <<Tweet(2), Tweet(3)>>}, hp \in BOOLEAN,
        cp \in {0, 2}, prev \in {0, 1}, cur \in {0, 5}, all \in BOOLEAN, at \in {0, 1} :
        /\ page # <<>> => hp
        /\ at # 0 => all
        /\ persisted = [nextCursor |-> nc, hasPage |-> hp, currentPageBookmarks |-> page,
                        currentPage |-> cp, previousFirstExported |-> prev,
                        currentRunFirstExported |-> cur, allBookmarksProcessed |-> all,
                        lastFullScanAt |-> at]
  /\ pc = "finish"
  /\ cfg = NoCfg
  /\ state = EmptyState
  /\ result = NoResult
  /\ \E c \in BOOLEAN : loc = [NoLoc EXCEPT !.completedFullScan = c]
  /\ pb = NoPb
  /\ \E n \in 1..MaxRuns : env = [runs |-> n, singles |-> MaxSingle]
  /\ g = [NoHist EXCEPT !.outcome = "running", !.startState = persisted]

NextFinish ==
  \/ FinishRun
  \/ Exit

SpecFinish == InitFinish /\ [][NextFinish]_vars

\* ------------------------------------------------------- C19
\* C19: finishRun removes nextCursor, currentPageBookmarks and currentPage;
\* currentRunFirstExported, if present, becomes previousFirstExported and is
\* removed; otherwise previousFirstExported is unchanged.
C19_FinishRunFrame ==
  [][pc = "finish" =>
       /\ persisted'.nextCursor = 0
       /\ ~persisted'.hasPage /\ persisted'.currentPageBookmarks = <<>>
       /\ persisted'.currentPage = 0
       /\ persisted'.currentRunFirstExported = 0
       /\ persisted'.previousFirstExported =
             IF persisted.currentRunFirstExported # 0
             THEN persisted.currentRunFirstExported
             ELSE persisted.previousFirstExported]_vars

\* finishRun has cleared a full set of pagination fields and replaced the
\* boundary id by the id of the run
C19_Witness ==
  /\ pc = "done"
  /\ g.finishCalled
  /\ g.startState.nextCursor # 0
  /\ Len(g.startState.currentPageBookmarks) > 0
  /\ g.startState.currentPage # 0
  /\ g.startState.previousFirstExported # 0
  /\ g.startState.currentRunFirstExported # 0
  /\ persisted.previousFirstExported = g.startState.currentRunFirstExported
  /\ persisted.nextCursor = 0

\* ------------------------------------------------------- C20
\* C20: finishRun sets allBookmarksProcessed = true and a new lastFullScanAt
\* exactly when completedFullScan = true and otherwise leaves both as they
\* were; allBookmarksProcessed never goes from true to false.
C20_CompletionFlags ==
  [][/\ pc = "finish" =>
          IF loc.completedFullScan
          THEN /\ persisted'.allBookmarksProcessed
               /\ persisted'.lastFullScanAt = env.runs
          ELSE /\ persisted'.allBookmarksProcessed = persisted.allBookmarksProcessed
               /\ persisted'.lastFullScanAt = persisted.lastFullScanAt
     /\ persisted.allBookmarksProcessed => persisted'.allBookmarksProcessed]_vars

\* a full scan that completes after an earlier one: the flag stays, the
\* time is the new one
C20_Witness ==
  /\ pc = "done"
  /\ g.finishCalled
  /\ loc.completedFullScan
  /\ g.startState.allBookmarksProcessed
  /\ g.startState.lastFullScanAt = 1
  /\ persisted.allBookmarksProcessed
  /\ persisted.lastFullScanAt = 2

\* ------------------------------------------------------- the state file
\* state.ts 7-27.  Here `state` is the object handed to saveState, a function
\* from the keys of ExporterState to -2 (no such property), -1 (the property
\* is there with the value undefined) or a value 0, 1 (for
\* currentPageBookmarks: an array of that many tweets); `persisted` is the
\* file: [exists, valid, json].
StateKeys ==
  {"nextCursor", "currentPageBookmarks", "currentPage", "previousFirstExported",
   "allBookmarksProcessed"}

\* a serialisation that drops every falsy property
stringifyTruthy(s) == [k \in StateKeys |-> IF s[k] <= 0 THEN -2 ELSE s[k]]

\* JSON.stringify, state.ts 26: a property whose value is undefined is left out
stringify(s) == [k \in StateKeys |-> IF s[k] = -1 THEN -2 ELSE s[k]]

\* state.ts 21-27
saveState ==
  /\ pb.step = "start"
  /\ persisted' = [exists |-> TRUE, valid |-> TRUE, json |-> stringify(state)]
  /\ pb' = [pb EXCEPT !.step = "saved"]
  /\ UNCHANGED <<top, handle, disk, errorLog, pc, cfg, state, result, loc, env, g>>

\* state.ts 7-19
loadState ==
  /\ pb.step # "loaded"
  /\ pb' = [step |-> "loaded",
            loaded |-> IF persisted.exists /\ persisted.valid THEN persisted.json
                       ELSE [k \in StateKeys |-> -2]]
  /\ UNCHANGED <<top, handle, disk, errorLog, persisted, pc, cfg, state, result, loc, env, g>>

\* any state object; no state file, or one that does not parse
InitState ==
  /\ top = 2
  /\ handle = [p \in Posts |-> "a"]
  /\ disk = {}
  /\ errorLog = <<>>
  /\ \E v \in BOOLEAN :
        persisted = [exists |-> v, valid |-> FALSE, json |-> [k \in StateKeys |-> -2]]
  /\ pc = "idle"
  /\ cfg = NoCfg
  /\ state \in [StateKeys -> -2..1]
  /\ result = NoResult
  /\ loc = NoLoc
  /\ pb = [step |-> "start", loaded |-> [k \in StateKeys |-> -2]]
  /\ env = [runs |-> 0, singles |-> 0]
  /\ g = NoHist

NextState ==
  \/ saveState
  \/ loadState

SpecState == InitState /\ [][NextState]_vars

\* ------------------------------------------------------- C21
\* equality of two state objects as toEqual tests it: a property with the
\* value undefined counts as no property
SameState(a, b) ==
  \A k \in StateKeys : (IF a[k] = -1 THEN -2 ELSE a[k]) = (IF b[k] = -1 THEN -2 ELSE b[k])

C22_OneCallInFlight ==
  /\ \A d \in DOMAIN pb.tasks : pb.tasks[d] <= 1
  /\ \A d, e \in DOMAIN pb.tasks : (pb.tasks[d] > 0 /\ pb.tasks[e] > 0) => d = e

\* ------------------------------------------------------- C23
IsSuffixOf(rem, ids) == \E k \in 0..Len(ids) : rem = SubSeq(ids, k + 1, Len(ids))
CursorAfter(P) == IF P < Len(AllPages) THEN P + 1 ELSE 0
\* the checkpoint written by this step holds a non-empty remainder
SavesRemainder ==
  /\ persisted' # persisted
  /\ persisted'.hasPage
  /\ Len(persisted'.currentPageBookmarks) > 0
RemainderOf(P) ==
  /\ P \in 1..Len(AllPages)
  /\ IsSuffixOf(Ids(persisted'.currentPageBookmarks), AllPages[P])
  /\ persisted'.nextCursor = CursorAfter(P)

\* C23: every checkpoint that exportBookmarks persists with a non-empty
\* currentPageBookmarks holds a suffix of the page most recently fetched by the
\* main loop, in this invocation or in the one the remainder was loaded from,
\* and its nextCursor is the cursor of the page after that page.
C23_RemainderOfLastMainFetch ==
  [][SavesRemainder => RemainderOf(g'.lastMainFetch)]_vars

\* ------------------------------------------------------- C24
\* the post a rate limit stopped the invocation at: the next one exports it
RateLimitedPost ==
  IF g.prevRlValid /\ g.prevRlIndex < Len(g.prevRlPage)
  THEN g.prevRlPage[g.prevRlIndex + 1].id
  ELSE 0

\* C24: the currentRunFirstExported that an invocation of exportBookmarks has
\* written and left in the checkpoint is the id of a post that the invocation
\* wrote to disk (or of the post it was rate limited at, which the resumed
\* invocation exports first), never of a post that was skipped, that failed or
\* that hit the boundary.
C24_FirstExportedWasWritten ==
  (/\ RunEnded
   /\ persisted.currentRunFirstExported # 0
   /\ persisted.currentRunFirstExported # g.startState.currentRunFirstExported)
  => \/ persisted.currentRunFirstExported \in g.written
     \/ persisted.currentRunFirstExported = RateLimitedPost

\* ------------------------------------------------------- C25
\* C25: an invocation that returns rateLimited = true, or that stops at the
\* max-pages cap with more pages available, leaves the persisted
\* previousFirstExported exactly as it was when the invocation started.
C25_BoundaryOnlyAtCompletion ==
  (RunEnded /\ (result.rateLimited \/ g.outcome \in {"cap", "capNew"}))
  => persisted.previousFirstExported = g.startState.previousFirstExported

\* a rate-limited or capped invocation that had a boundary and a first-post
\* mark to move
C25_Witness ==
  /\ RunEnded
  /\ result.rateLimited \/ g.outcome \in {"cap", "capNew"}
  /\ g.startState.previousFirstExported # 0
  /\ persisted.currentRunFirstExported # 0
  /\ persisted.currentRunFirstExported # g.startState.currentRunFirstExported

\* ------------------------------------------------------- C26
\* the run ended because the list was exhausted: the last page fetched had no
\* next cursor and was handled to its end (an empty page has no posts to handle)
ListExhausted ==
  /\ g.outcome = "finished"
  /\ loc.nextCursor = 0
  /\ loc.i >= Len(loc.bookmarksPage)
  /\ ~result.hitPreviousExport
  /\ ~result.rateLimited

\* C26: a run of exportBookmarks that sets allBookmarksProcessed in the
\* checkpoint ended because the bookmark list was exhausted; a run that ended
\* by rate limit, by a boundary hit or by the max-pages cap with a next cursor
\* available does not set it.
C26_CompleteOnlyWhenExhausted ==
  (RunEnded /\ persisted.allBookmarksProcessed /\ ~g.startState.allBookmarksProcessed)
  => ListExhausted

\* a resumed run has set the flag: the run before it had ended without
C26_Witness ==
  /\ RunEnded
  /\ persisted.allBookmarksProcessed
  /\ ~g.startState.allBookmarksProcessed
  /\ g.startState.nextCursor # 0
  /\ result.exported > 0

\* ------------------------------------------------------- C27
\* a conversation query or a single-post fetch of processBookmark is about to
\* be issued, or in flight, for the current post
BeforeWrite == pc \in {"thread", "quote", "fanout", "write"}

\* C27: in normal mode every conversation query and single-post fetch made
\* for a candidate post comes after the lookup of that post on disk, and the
\* lookup found nothing: a post that is on disk is never being processed, and
\* the calls made after the write are for a post this invocation wrote.
C27_CheckBeforeNetwork ==
  /\ BeforeWrite => /\ CurrentTweet.id \in g.processed
                    /\ ~bookmarkExistsById(disk, CurrentTweet.id)
  /\ pc = "links" => /\ CurrentTweet.id \in g.processed
                     /\ CurrentTweet.id \in g.written

\* a post is being processed after an earlier post of the page was found on
\* disk and skipped
C27_Witness ==
  /\ pc = "thread"
  /\ pb.threadTweets > 0
  /\ result.skipped > 0
  /\ loc.i > 0
  /\ bookmarkExistsById(disk, loc.bookmarksPage[loc.i].id)

\* ------------------------------------------------------- C28
\* the response of the query just answered holds a continuation of the tweet
\* that was queried
AnsweredWithContinuation ==
  /\ pb'.last.o = "ok"
  /\ \E k \in 1..MaxConv :
        /\ \E j \in 1..Len(Response(pb.order, pb'.last.v)) :
              Response(pb.order, pb'.last.v)[j] = k
        /\ isThreadContinuation(pb.conv, k, pb.currentTweetId)

\* C28: expandThread stops walking when a conversation query answers without
\* a qualifying continuation or fails with a non-rate-limit error, and then
\* returns normally with exactly the continuation elements found by the
\* earlier queries; a rate-limit failure of a query, thrown or returned as an
\* unsuccessful result, is raised to the caller and nothing is returned.
C28_ThreadFailures ==
  [][/\ pc = "thQuery" =>
          /\ pb'.last.o \in {"rlThrown", "rlResult"} =>
                pc' = "thThrew" /\ pb'.replies = <<>>
          /\ pb'.last.o \in {"errThrown", "errResult"} =>
                pc' = "thFilter" /\ pb'.threadTweets = pb.threadTweets
          /\ (pb'.last.o = "ok" /\ ~AnsweredWithContinuation) =>
                pc' = "thFilter" /\ pb'.threadTweets = pb.threadTweets
          /\ AnsweredWithContinuation =>
                pc' = "thQuery" /\ Len(pb'.threadTweets) = Len(pb.threadTweets) + 1
     /\ pc = "thFilter" => pc' = "thDone" /\ pb'.threadTweets = pb.threadTweets
     /\ pc = "thThrew" => pc' = "thThrew"]_vars

\* a query failed after two continuations were found, and expandThread has
\* returned them
C28_Witness ==
  /\ pc = "thDone"
  /\ pb.last.o \in {"errThrown", "errResult"}
  /\ Len(pb.threadTweets) = 2
  /\ pb.includeReplies

\* ------------------------------------------------------- C29
InSeq(seq, k) == \E j \in 1..Len(seq) : seq[j] = k

\* C29: the reply candidates of expandThread all come from the response to
\* the first query: a tweet that was not in it and appears in a later
\* response is not in replies, and no tweet is a candidate twice.
C29_CandidatesFromFirstQuery ==
  /\ \A i, j \in 1..Len(pb.potentialReplies) :
        pb.potentialReplies[i] = pb.potentialReplies[j] => i = j
  /\ \A k \in 1..MaxConv :
        (InSeq(pb.potentialReplies, k) \/ InSeq(pb.replies, k))
        => (~pb.isFirstCall /\ InSeq(Response(pb.order, pb.first), k))

\* the first response lacked a reply by another user to the bookmarked tweet,
\* a later response held it, and expandThread has returned other replies
C29_Witness ==
  /\ pc = "thDone"
  /\ pb.includeReplies
  /\ pb.first = -Varying
  /\ Len(pb.threadTweets) > 0
  /\ pb.conv[Varying].author = "b"
  /\ pb.conv[Varying].inReplyTo = Original
  /\ Len(pb.replies) > 0

\* ------------------------------------------------------- C30
\* expandQuotedTweets takes its step whenever it can: the process is not
\* suspended for ever
SpecQuoteFair == SpecQuote /\ WF_vars(NextQuote)

Max(a, b) == IF a >= b THEN a ELSE b
QuoteReturned == pc \in {"expanded", "threw"}

\* C30: expandQuotedTweets(post, d) returns the post as it is, without a
\* fetch, when d <= 1 or the post quotes nothing; otherwise every recursive
\* call receives d - 1, so at most max(0, d - 1) single-post fetches are
\* issued, and the call ends, on a cyclic chain and on one longer than d too.
C30_QuoteExpansionEnds ==
  /\ [](pc # "args" =>
          /\ pb.fetches <= Max(0, cfg.quoteDepth - 1)
          /\ pb.remainingDepth = cfg.quoteDepth - pb.at
          /\ (pc = "expanded" /\ (cfg.quoteDepth <= 1 \/ (~pb.cyclic /\ pb.chain = 0)))
             => (pb.fetches = 0 /\ pb.at = 0 /\ pb.levels = Min(1, Nesting)))
  /\ <>QuoteReturned

\* depth 3 on a tweet that quotes itself: two fetches, then the call returns
C30_Witness ==
  /\ pc = "expanded"
  /\ pb.cyclic
  /\ pb.chain = 0
  /\ cfg.quoteDepth = 3
  /\ pb.fetches = 2
  /\ ~pb.failed

\* ------------------------------------------------------- C31
\* C31: whatever value --quote-depth is given, -1 and values above 20
\* included, the depth passed to expandQuotedTweets is at most 20 and no
\* bookmark is expanded more than 20 quote levels deep.
C31_DepthCapped ==
  pc # "args" =>
     /\ cfg.quoteDepth <= QUOTE_DEPTH_CAP
     /\ pb.remainingDepth <= QUOTE_DEPTH_CAP
     /\ pb.levels <= QUOTE_DEPTH_CAP

\* ------------------------------------------------------- C32
\* C32: when the fetch of a quoted post fails for a reason other than a rate
\* limit, thrown or as an unsuccessful result, expandQuotedTweets raises
\* nothing: the step counts no error, logs nothing, does not end the
\* processing of the enclosing post, and that post goes on to be written.
C32_QuoteFailureFallsBack ==
  [][(pb'.quoteFailed /\ ~pb.quoteFailed) =>
        /\ pc' \in {"fanout", "quoteAll", "write"} \/ pc' = pc
        /\ result' = result
        /\ errorLog' = errorLog
        /\ loc' = loc
        /\ g'.rlRaised = g.rlRaised]_vars

\* the enclosing post of a failed quote fetch has been written, no error counted
C32_Witness ==
  /\ pc = "links"
  /\ pb.quoteFailed
  /\ CurrentTweet.id \in g.written
  /\ result.errors = 0
  /\ Len(errorLog) = 0

\* ------------------------------------------------------- C33
\* the step is a getMetadataWithCache whose fetcher answered: cacheMetadata
\* has been called and has returned
Stored == pb'.last.op = "with" /\ pb'.last.calls = 1 /\ pb'.last.returned # 0

\* C33: after every completed cacheMetadata(dir, url, value) the cache file
\* of dir parses to the in-memory cache: it holds the new entry and every
\* entry the file held before for another url.
C33_CacheFlushed ==
  [][Stored =>
       LET dir == pb'.last.dir
           url == pb'.last.url
           new == pb'.files[dir]
       IN /\ new.exists /\ new.valid
          /\ new.json = pb'.cache
          /\ pb'.outputDir = dir
          /\ url \in DOMAIN new.json
          /\ new.json[url] = [metadata |-> pb'.last.returned, fetchedAt |-> pb.now]
          /\ \A x \in DOMAIN ReadCache(pb.files[dir]) \ {url} :
                x \in DOMAIN new.json /\ new.json[x] = ReadCache(pb.files[dir])[x]
          /\ \A d \in pb.dirs \ {dir} : pb'.files[d] = pb.files[d]]_vars

\* an entry is stored for the first directory after the memory cache had
\* been loaded for the second; the file of the first keeps its other entry
C33_Witness ==
  /\ pb.last.op = "with" /\ pb.last.calls = 1 /\ pb.last.returned # 0
  /\ pb.last.dir = "d1"
  /\ pb.last.url = "u1"
  /\ pb.files["d1"].json = pb.cache
  /\ "u2" \in DOMAIN pb.cache
  /\ pb.files["d2"].exists
  /\ "u2" \in DOMAIN pb.files["d2"].json
  /\ pb.files["d2"].json["u2"] # pb.cache["u2"]

\* ------------------------------------------------------- C39
\* the step is a getMetadataWithCache whose fetcher was invoked and threw
FetcherFailed == pb'.last.op = "with" /\ pb'.last.calls = 1 /\ pb'.last.returned = 0

\* C39: when the fetcher passed to getMetadataWithCache fails, the caller
\* gets the failure and the cache is as before, in memory (the cache that
\* loadCache gives for the directory) and in the file: no entry is created or
\* refreshed for the url, and a stale entry for it is still stale.
C39_FailedFetchLeavesCache ==
  [][FetcherFailed =>
       LET dir == pb'.last.dir
           url == pb'.last.url
       IN /\ pb'.files = pb.files
          /\ pb'.cache = loadCache(pb, dir).cache
          /\ CachedValue(pb'.cache, url, pb'.now) = 0
          /\ (url \in DOMAIN pb'.cache) = pb'.last.had
          /\ pb'.last.had =>
                /\ pb'.cache[url].metadata = pb'.last.stored
                /\ pb'.now - pb'.cache[url].fetchedAt = pb'.last.age]_vars

\* the fetcher has failed for a url whose entry is 8 days old: the entry is
\* still there, in memory and in the file, with its old fetchedAt
C39_Witness ==
  /\ pb.last.op = "with" /\ pb.last.calls = 1 /\ pb.last.returned = 0
  /\ pb.last.had
  /\ pb.last.age = 8 * TicksPerDay
  /\ pb.last.url \in DOMAIN pb.cache
  /\ pb.now - pb.cache[pb.last.url].fetchedAt = 8 * TicksPerDay
  /\ pb.files[pb.last.dir].json = pb.cache

\* ------------------------------------------------ C34: the page delay
\* the step fetches a bookmark page that is not the first of the invocation
LaterFetch == g'.pageFetches = g.pageFetches + 1 /\ g.pageFetches > 0

\* C34: between two consecutive bookmark-page fetches of one invocation the
\* fixed page delay has been slept, and a fetch of the main loop finds the
\* checkpoint persisted with the cursor it fetches and no remainder
C34_DelayBetweenFetches ==
  [][LaterFetch =>
       /\ g.slept
       /\ InMain => /\ persisted.nextCursor = state.nextCursor
                    /\ persisted.currentPageBookmarks = <<>>]_vars

\* the case without the new-bookmarks phase: the main loop alone
C34_DelayInMainLoop ==
  [][(LaterFetch /\ ~g.newPhaseRan) => g.slept]_vars

\* ------------------------------------------- C35: the new-bookmarks phase
\* the resume position of the main scan in a state file
ResumePosition(s) == <<s.nextCursor, s.hasPage, s.currentPageBookmarks, s.currentPage>>

\* C35: no step of the new-bookmarks phase, its end and the returns out of it
\* included, changes the persisted nextCursor, currentPageBookmarks or
\* currentPage: they are those of the state file at invocation start
C35_NewPhaseKeepsResumePosition ==
  [][loc.phase = "new" =>
       ResumePosition(persisted') = ResumePosition(g.startState)]_vars

\* the phase has exported a new bookmark and ended by moving the anchor; the
\* main loop is about to resume from the position saved before
C35_Witness ==
  /\ g.newPhaseRan /\ pc = "mainTop" /\ g.mainFetches = 0 /\ loc.pageNum = g.startState.currentPage
  /\ result.exported > 0
  /\ persisted.currentRunFirstExported # g.startState.currentRunFirstExported
  /\ g.startState.nextCursor # 0
  /\ ResumePosition(persisted) = ResumePosition(g.startState)

\* ------------------------------------------- C40: the 3-check early return
\* C40: when the first posts of the page (up to 3) all exist on disk the
\* invocation returns hitPreviousExport = TRUE without finishRun, and neither
\* taking the page nor the return writes the state file: every persisted
\* field is what it was before the page was examined
C40_EarlyStopKeepsCheckpoint ==
  [][/\ pc' = "check3" => persisted' = persisted
     /\ (pc = "check3" /\ g'.outcome = "stop3") =>
          /\ persisted' = persisted
          /\ pc' = "done"
          /\ result'.hitPreviousExport
          /\ ~g'.finishCalled]_vars

\* a later page of an invocation was found on disk: the state file is the
\* one written at the end of the page before it
C40_Witness ==
  /\ pc = "done" /\ g.outcome = "stop3"
  /\ g.mainFetches >= 2 /\ result.exported > 0
  /\ result.hitPreviousExport /\ ~g.finishCalled
  /\ persisted.nextCursor # 0 /\ persisted.currentPageBookmarks = <<>>
  /\ persisted # g.startState
  /\ ~persisted.allBookmarksProcessed
  /\ state.currentPage # persisted.currentPage

\* ------------------------------------------------ C38: one write per post
\* the file of the post about to be written is not on disk; files are never
\* removed, so no file is written twice
WriteOnlyIfAbsent == pc = "write" => ~bookmarkExistsById(disk, CurrentTweet.id)

\* the invocation resumes the remainder saved by a rate limit that came after
\* the file of the remainder's first post was written (no single-post export
\* has written a file, so the file is the interrupted run's)
ResumesWrittenPost ==
  /\ pc = "check3" /\ g.prevRlValid /\ g.mainFetches = 0 /\ g.visited = <<>>
  /\ env.singles = 0
  /\ loc.bookmarksPage = Slice(g.prevRlPage, g.prevRlIndex)
  /\ bookmarkExistsById(disk, loc.bookmarksPage[1].id)

\* C38 (first part): across normal-mode invocations the markdown file of a
\* post is written at most once
C38_WrittenAtMostOnce == WriteOnlyIfAbsent

\* C38: the file of a post is written at most once, and a post whose file was
\* written before a rate limit interrupted the run is, on resume, found on
\* disk and counted as skipped
C38_WrittenOnceSkippedOnResume ==
  [][/\ WriteOnlyIfAbsent'
     /\ ResumesWrittenPost => pc' = "post"
     /\ (pc = "post" /\ loc.i = 0 /\ g.prevRlValid /\ g.mainFetches = 0 /\ g.visited = <<>>
         /\ env.singles = 0
         /\ bookmarkExistsById(disk, CurrentTweet.id)) =>
           result'.skipped = result.skipped + 1]_vars

\* ------------------------------------------------ C36: rebuild resume
\* the posts with an entry in the error log
Logged == {errorLog[k].tweetId : k \in 1..Len(errorLog)}

\* every post of the pages in front of the saved cursor has a file or an
\* entry in the error log
NoPostLost ==
  persisted.nextCursor # 0 =>
    \A k \in top..(persisted.nextCursor - 1) : \A j \in 1..Len(AllPages[k]) :
       \/ findBookmarkPath(disk, AllPages[k][j]) # {}
       \/ AllPages[k][j] \in Logged

RepliesInChain(t, c) ==
  \A i \in 1..Len(t) : c[t[i]].inReplyTo = IF i = 1 THEN Original ELSE t[i - 1]

\* C37: threadTweets is a reply chain from the bookmarked tweet, by its
\* author (handles compared without case), without the bookmarked tweet and
\* without a tweet twice; the walk makes at most one getThread call per chain
\* element plus one, so it ends
C37_ChainShape ==
  LET t == pb.threadTweets
      c == pb.conv
  IN /\ RepliesInChain(t, c)
     /\ \A i \in 1..Len(t) :
          /\ toLowerCase(c[t[i]].author) = toLowerCase(c[Original].author)
          /\ t[i] # Original
     /\ \A i, j \in 1..Len(t) : i # j => t[i] # t[j]
     /\ pb.queries <= Len(t) + 1
     /\ Len(t) <= MaxConv - Original

\* a result with a chain of two, the first by the author's handle in another
\* case, found by three calls
C37_Witness ==
  /\ pc = "thDone"
  /\ Len(pb.threadTweets) = 2
  /\ pb.conv[pb.threadTweets[1]].author = "A"
  /\ pb.queries = 3

====
